---- MODULE Spec2Model ----
(***************************************************************************)
(* Model of the thumbnail grid of podofilo_v2_core:                        *)
(*   - src/src/ui/virtual_grid.py  VirtualLayout, VirtualGrid              *)
(*   - src/src/ui/main_window.py   the host handlers that drive the grid   *)
(*   - src/src/pdf/cache.py        PageCache                               *)
(*   - src/src/pdf/structure.py    SectionManager                          *)
(*   - src/src/ui/pdf_viewer.py    PdfViewer's thumbnail lookups           *)
(*                                                                         *)
(* A handler of the UI thread is one atomic action (Tk runs one callback   *)
(* at a time); a worker's render task is split where the code yields to    *)
(* other threads.  Handlers are written as operators from a record g of    *)
(* the grid's fields to the record after the handler; an action applies a  *)
(* handler to the current fields and stores the result.                    *)
(***************************************************************************)
EXTENDS Integers, Sequences, FiniteSets, TLC

VARIABLES
    item_count,        \* VirtualGrid.item_count
    thumbnail_size,    \* VirtualGrid.thumbnail_size (the resolution class)
    item_sizes,        \* VirtualGrid.item_sizes: sequence of <<w, h>>
    aspect_ratios,     \* VirtualGrid.aspect_ratios
    images_cache,      \* VirtualGrid.images_cache: ordered dict size -> {index -> raster}
    pending_renders,   \* VirtualGrid._pending_renders (its keys)
    tasks,             \* render_task closures handed to _render_executor
    ui_queue,          \* callbacks queued with self.after(0, ...) for the UI thread
    drawn_items,       \* VirtualGrid._drawn_items and the canvas objects they name
    last_visible_range, \* VirtualGrid._last_visible_range
    positions,         \* VirtualLayout.positions: sequence of <<x, y, w, h>>
    total_height,      \* VirtualLayout.total_height
    scroll_y,          \* canvas.canvasy(0)
    scroll_redraw_pending, \* VirtualGrid._scroll_redraw_pending
    scroll_redraw_timers,  \* after(16) calls of _debounced_scroll_redraw that are due
    wheels_pending,    \* history: wheel scrolls since the last redraw (MaxWheelsCounted: or more)
    box_mode,          \* VirtualGrid.box_mode
    document_boxes,    \* VirtualGrid.document_boxes: sequence of [state, progress]
    page_rot,          \* the viewer's pages: quarter turns applied to each page
    doc_gen,           \* number of structural changes (set_item_count calls) so far
    size_calc_due,     \* _async_calculate_sizes callbacks scheduled with after(10, ...)
    ev,                \* history: the handler that ran last and what it did
    sw,                \* history: progress of a zoom switch c -> c' -> c
    preload_due,       \* an after(500, _preload_adjacent_zoom_levels) timer is due
    warm,              \* the ZoomPreload thread: its captured and loop variables
    warm_posts,        \* save_to_cache callbacks queued with self.after(0, ...)
    cache,             \* PageCache._cache: key -> image
    access_order,      \* PageCache._access_order
    last_use,          \* history: logical time of each key's last get hit or put
    clock,             \* history: number of PageCache operations so far
    pc_ev,             \* history: the PageCache operation that ran last
    layout,            \* a VirtualLayout object: the fields update reads and writes
    layout_args,       \* history: the arguments of the last update of layout
    selected_indices,  \* VirtualGrid.selected_indices
    bracket_start,     \* VirtualGrid.bracket_start
    hover_index,       \* VirtualGrid.hover_index (bracket hover)
    hover_side,        \* VirtualGrid.hover_side: "left", "right" or "None"
    hover_item_index,  \* VirtualGrid.hover_item_index
    hover_gap,         \* VirtualGrid.hover_gap (cut mode)
    cut_mode,          \* VirtualGrid.cut_mode
    drag_active,       \* VirtualGrid.drag_active
    drag_start_x,      \* VirtualGrid.drag_start_x
    drag_start_y,      \* VirtualGrid.drag_start_y
    drag_start_index,  \* VirtualGrid.drag_start_index
    pending_click_index, \* VirtualGrid.pending_click_index
    drop_indicator_index, \* VirtualGrid.drop_indicator_index
    fan_active,        \* VirtualGrid.drag_fan.active
    continuous_mode,   \* VirtualGrid.continuous_mode
    sections,          \* VirtualGrid.sections
    header_items,      \* VirtualGrid._header_items: the header rectangles on the canvas
    drop_target_section, \* VirtualGrid.drop_target_section: its index in sections
    last_drop_section, \* VirtualGrid._last_drop_section
    drop_line_items,   \* canvas image items made by _draw_drop_indicator, still on the canvas
    reorder_call,      \* history: the last call of reorder_selected_boxes and its result
    manager_sections,  \* SectionManager.sections: sequence of [start_page, page_count]
    manager_call,      \* history: the last call on the section manager
    viewer_call,       \* history: the last thumbnail lookup of the viewer and its result
    ptr                \* history: the mouse button, the last press, the callbacks made

gridvars == <<item_count, thumbnail_size, item_sizes, aspect_ratios, images_cache,
              pending_renders, tasks, ui_queue, drawn_items, positions, total_height,
              scroll_y, scroll_redraw_pending, box_mode, document_boxes, page_rot,
              doc_gen, size_calc_due, ev, sw, preload_due, warm, warm_posts,
              last_visible_range, scroll_redraw_timers, wheels_pending>>
cachevars == <<cache, access_order, last_use, clock, pc_ev>>
layoutvars == <<layout, layout_args>>
pointervars == <<selected_indices, bracket_start, hover_index, hover_side, hover_item_index,
                 hover_gap, cut_mode, drag_active, drag_start_x, drag_start_y,
                 drag_start_index, pending_click_index, drop_indicator_index, fan_active,
                 continuous_mode, sections, header_items, drop_target_section,
                 last_drop_section, drop_line_items, reorder_call, ptr>>
documentvars == <<manager_sections, manager_call, viewer_call>>
vars == <<gridvars, cachevars, layoutvars, pointervars, documentvars>>

----------------------------------------------------------------------------
(* Bounds of the model *)

\* Largest number of items a document or a box list has.
MaxItems == 2
\* Render tasks and posted results that may be outstanding together.
MaxTasks == 2
\* Documents loaded in a behaviour of the pipeline specification.
MaxLoads == 1
\* Structural changes (set_item_count calls) in a behaviour with reloads.
MaxDocs == 2
\* Zoom levels above 150 px the pipeline specification zooms through.
ZoomSpan == 1
\* Height and width of the canvas in pixels (canvas.winfo_height / winfo_width).
ViewHeight == 100
CanvasWidth == 200
\* Capacity of the PageCache instance under check (PageCache(max_size=...)).
max_size == 2
\* PageCache operations in a behaviour.
MaxClock == 5
\* items of the documents loaded where page content is mutated
MutItems == 1
\* quarter turns applied to one page
MaxRot == 1
\* scroll units of one mouse wheel event
WheelUnits == 10
\* items of the document zoomed through all levels
ZoomItems == 1
\* The widest list of equal items, and the longest list with mixed sizes
MaxLaidItems == 10
MaxMixed == 4
\* Scheduled scroll redraws that may be due together, and the wheel scrolls
\* counted since a redraw
MaxScrollTimers == 2
MaxWheelsCounted == 2
\* Drop-line images that may lie on the canvas together
MaxDropLines == 2
\* Titles of the sections have 1 to MaxTitleLen characters
MaxTitleLen == 6

\* Pages of the document the section manager is initialised with
MaxManagerPages == 5

\* Sections of a section list, and pages of one section
MaxSections == 3
MaxSectionPages == 2

----------------------------------------------------------------------------
(* Program constants *)

\* main_window.py:467, handed to the grid as _zoom_levels_for_preload
zoom_levels == <<75, 100, 120, 150, 180, 225, 300, 375, 450>>
\* virtual_grid.py:472
max_zoom_levels_cached == 7
\* virtual_grid.py:267
sepsize == 3
\* virtual_grid.py:520, ThreadPoolExecutor(max_workers=4)
max_workers == 4
\* virtual_grid.py:463, the size the grid is constructed with
InitialSize == 150

None == "None"
\* Aspect ratios: the literal 0.707 is the default; box mode sets
\* box_width / box_height; a rendered page's ratio comes from its image.
DefaultAspect == [of |-> "default", rot |-> 0]
BoxAspect == [of |-> "box", rot |-> 0]
PageAspect(rot) == [of |-> "page", rot |-> rot]
\* No canvas id, no raster, no box
NoId == 0
NoRaster == [size |-> 0, rot |-> 0, gen |-> 0]
NoBox == [state |-> "None", progress |-> 0]
\* The None of an Optional[int] field
Nil == -1

Max(a, b) == IF a >= b THEN a ELSE b
Min(a, b) == IF a <= b THEN a ELSE b

\* Positions of the elements of sequence s that satisfy nothing in particular:
\* the index of value v in s, 0 when absent (list.index / "in").
IndexOf(s, v) == IF \E k \in 1..Len(s) : s[k] = v
                 THEN CHOOSE k \in 1..Len(s) : s[k] = v /\ \A j \in 1..(k-1) : s[j] # v
                 ELSE 0

\* s without its k-th element
RemoveAt(s, k) == [j \in 1..(Len(s)-1) |-> IF j < k THEN s[j] ELSE s[j+1]]

----------------------------------------------------------------------------
(* Page geometry and rasters *)

\* Width/height in thousandths of an aspect ratio value.  The default is the
\* literal 0.707; a rendered page's ratio is that of the image the renderer
\* returned: the test pages are 3:4 upright and 4:3 after an odd number of
\* quarter turns.
AspectMilli(a) == IF a = DefaultAspect THEN 707
                  ELSE IF a = BoxAspect THEN 750
                  ELSE IF a.rot % 2 = 0 THEN 750 ELSE 1333

\* round(h * aspect)
ScaledWidth(h, a) == (h * AspectMilli(a) + 500) \div 1000

\* The image main_window._on_request_image returns for a page: height = size,
\* content = the page as it is now (its rotation); gen records the structural
\* epoch in which the request was submitted.
Raster(size, rot, gen) == [size |-> size, rot |-> rot, gen |-> gen]

\* pil_img.width / pil_img.height of a raster
RasterAspect(img) == PageAspect(img.rot)

----------------------------------------------------------------------------
(* VirtualLayout *)

\* VirtualLayout.update with no sections: left-to-right flow, wrapping when the
\* next item does not fit.  st = [x, y, row_height, positions].
RECURSIVE LayoutFlow(_, _, _, _)
LayoutFlow(sizes, width, i, st) ==
    IF i > Len(sizes)
    THEN st
    ELSE LET w == sizes[i][1]
             h == sizes[i][2]
             item_w == w + sepsize
             item_h == h + sepsize
             wrap == st.x > 0 /\ st.x + item_w > width
             x0 == IF wrap THEN 0 ELSE st.x
             y0 == IF wrap THEN st.y + st.row_height ELSE st.y
             rh0 == IF wrap THEN 0 ELSE st.row_height
         IN LayoutFlow(sizes, width, i + 1,
                [x |-> x0 + item_w, y |-> y0, row_height |-> Max(rh0, item_h),
                 positions |-> Append(st.positions, <<x0, y0, w, h>>)])

\* VirtualLayout.update(item_sizes, available_width): positions and total_height
LayoutUpdate(sizes, available_width) ==
    IF Len(sizes) = 0
    THEN [positions |-> <<>>, total_height |-> 0]
    ELSE LET st == LayoutFlow(sizes, Max(1, available_width), 1,
                       [x |-> 0, y |-> 0, row_height |-> 0, positions |-> <<>>])
         IN [positions |-> st.positions,
             total_height |-> IF st.row_height > 0 THEN st.y + st.row_height ELSE st.y]

\* VirtualLayout.get_visible_range: <<start_idx, end_idx>> over 0-based indices
VisibleIdx(pos, sy, vh) ==
    {i \in 0..(Len(pos)-1) : pos[i+1][2] + pos[i+1][4] >= sy /\ pos[i+1][2] <= sy + vh}

LeastOf(S) == CHOOSE m \in S : \A n \in S : m <= n
GreatestOf(S) == CHOOSE m \in S : \A n \in S : m >= n

get_visible_range(pos, sy, vh) ==
    IF VisibleIdx(pos, sy, vh) = {}
    THEN <<0, 0>>
    ELSE <<LeastOf(VisibleIdx(pos, sy, vh)), GreatestOf(VisibleIdx(pos, sy, vh)) + 1>>

----------------------------------------------------------------------------
(* The multi-level image cache of the grid *)

EmptyImgs == [i \in {} |-> None]

\* position of resolution class size in the ordered dict, 0 when absent
LevelIdx(c, size) == IndexOf([k \in 1..Len(c) |-> c[k].size], size)

\* the dict of one resolution class, without creating it: images_cache.get(size, {})
LevelImgs(c, size) == IF LevelIdx(c, size) = 0 THEN EmptyImgs ELSE c[LevelIdx(c, size)].imgs

\* the images property: creates the dict of the current class when it is missing
Images(g) ==
    IF LevelIdx(g.images_cache, g.thumbnail_size) # 0
    THEN g
    ELSE [g EXCEPT !.images_cache = Append(@, [size |-> g.thumbnail_size, imgs |-> EmptyImgs])]

\* VirtualGrid._get_image: self.images.get(index), None when absent; the
\* result is left in g.ret
GetImage(g, index) ==
    LET g1 == Images(g)
        imgs == LevelImgs(g1.images_cache, g1.thumbnail_size)
    IN [g1 EXCEPT !.ret = IF index \in DOMAIN imgs THEN imgs[index] ELSE NoRaster]

\* imgs with key index set to image / without key index
PutKey(imgs, index, image) == [j \in DOMAIN imgs \cup {index} |-> IF j = index THEN image ELSE imgs[j]]
DelKey(imgs, index) == [j \in DOMAIN imgs \ {index} |-> imgs[j]]

\* VirtualGrid._set_image: store under the CURRENT class, then drop the first
\* inserted class when more than max_zoom_levels_cached are held, unless it is
\* the current one.
SetImage(g, index, image) ==
    LET g1 == Images(g)
        k == LevelIdx(g1.images_cache, g1.thumbnail_size)
        c2 == [g1.images_cache EXCEPT ![k].imgs = PutKey(@, index, image)]
    IN [g1 EXCEPT !.images_cache =
            IF Len(c2) > max_zoom_levels_cached /\ c2[1].size # g1.thumbnail_size
            THEN Tail(c2)
            ELSE c2]

----------------------------------------------------------------------------
(* VirtualLayout.update with sections and the continuous mode.  A layout
   object is a record of its fields; a section is [start_page, page_count];
   dicts are functions, section indices are 0-based as in the code. *)

\* VirtualLayout.__init__
NewLayout ==
    [width |-> 1000, total_height |-> 0, positions |-> <<>>, row_heights |-> EmptyImgs,
     section_bounds |-> EmptyImgs, section_header_coords |-> EmptyImgs,
     continuous_mode |-> FALSE]

\* section_starts = {s.start_page: i for i, s in enumerate(sections)}: of the
\* sections that start at the same page the last one stays
SectionStarts(secs) ==
    [p \in {secs[k].start_page : k \in 1..Len(secs)} |->
        GreatestOf({k - 1 : k \in {j \in 1..Len(secs) : secs[j].start_page = p}})]

\* Variant of ClampWidth that takes the width as it comes
ClampWidth_Raw(available_width) == available_width

\* self.width = max(1, available_width)
ClampWidth(available_width) == Max(1, available_width)

\* Variant of ResetLayout that keeps the positions of the layout before
ResetLayout_KeepPositions(L, available_width) ==
    [L EXCEPT !.width = ClampWidth(available_width), !.row_heights = EmptyImgs,
              !.section_bounds = EmptyImgs, !.section_header_coords = EmptyImgs]

\* The head of update: every output field is emptied
ResetLayout(L, available_width) ==
    [L EXCEPT !.width = ClampWidth(available_width), !.positions = <<>>,
              !.row_heights = EmptyImgs, !.section_bounds = EmptyImgs,
              !.section_header_coords = EmptyImgs]

\* The loop variables before the first item: x, y, row_height, the section
\* being laid out and where it started, and the header of the first section.
StartFlow(L, secs, starts) ==
    LET active == IF Len(secs) > 0 /\ 0 \in DOMAIN starts THEN starts[0] ELSE 0
        tracked == Len(secs) > 0 /\ (0 \in DOMAIN starts \/ ~L.continuous_mode)
    IN [x |-> 0, y |-> 0, row_height |-> 0,
        positions |-> L.positions, row_heights |-> L.row_heights,
        section_bounds |-> L.section_bounds,
        section_header_coords |->
            IF tracked THEN PutKey(L.section_header_coords, active, <<0, 0, 0>>)
            ELSE L.section_header_coords,
        current_section_start_y |-> 0, active_section_idx |-> active]

\* Variant of ForceNewRow that lets the new section go on in the current row
ForceNewRow_Stay(st, continuous) == st

\* The row break of a new section: outside the continuous mode the open row
\* is committed and the next item starts a row
ForceNewRow(st, continuous) ==
    IF ~continuous /\ (st.row_height > 0 \/ st.x > 0)
    THEN [st EXCEPT !.row_heights = IF st.row_height > 0
                                    THEN PutKey(@, st.y, st.row_height) ELSE @,
                    !.y = st.y + st.row_height,
                    !.x = 0,
                    !.row_height = 0]
    ELSE st

\* Item i starts a section other than the active one: break the row, close the
\* bounds of the section that ends and of the sections skipped, switch.
SwitchSection(st, i, starts, continuous) ==
    IF i \in DOMAIN starts /\ i > 0 /\ starts[i] # st.active_section_idx
    THEN LET s1 == ForceNewRow(st, continuous)
             closed == (st.active_section_idx + 1)..(starts[i] - 1)
         IN [s1 EXCEPT
                !.section_bounds =
                    [k \in DOMAIN @ \cup {st.active_section_idx} \cup closed |->
                        IF k \in closed THEN <<s1.y, s1.y>>
                        ELSE IF k = st.active_section_idx
                             THEN <<st.current_section_start_y, s1.y>>
                             ELSE @[k]],
                !.current_section_start_y = s1.y,
                !.active_section_idx = starts[i]]
    ELSE st

\* Variant of WrapRow that starts the new row without moving down
WrapRow_SameY(st, item_w, width) ==
    IF st.x > 0 /\ st.x + item_w > width
    THEN [st EXCEPT !.row_heights = PutKey(@, st.y, st.row_height), !.x = 0,
                    !.row_height = 0]
    ELSE st

\* Variant of WrapRow that tests the item's width without the gap
WrapRow_NoGap(st, item_w, width) ==
    IF st.x > 0 /\ st.x + (item_w - sepsize) > width
    THEN [st EXCEPT !.row_heights = PutKey(@, st.y, st.row_height),
                    !.y = st.y + st.row_height, !.x = 0, !.row_height = 0]
    ELSE st

\* An item that does not fit the open row closes it and starts the next
WrapRow(st, item_w, width) ==
    IF st.x > 0 /\ st.x + item_w > width
    THEN [st EXCEPT !.row_heights = PutKey(@, st.y, st.row_height),
                    !.y = st.y + st.row_height, !.x = 0, !.row_height = 0]
    ELSE st

\* Place item i of size <<w, h>>: wrap, append its position, record the header
\* of the section it starts, advance x and the row height
PlaceItem(st, i, w, h, starts, width) ==
    LET item_w == w + sepsize
        item_h == h + sepsize
        s1 == WrapRow(st, item_w, width)
    IN [s1 EXCEPT !.positions = Append(@, <<s1.x, s1.y, w, h>>),
                  !.section_header_coords =
                      IF i \in DOMAIN starts THEN PutKey(@, starts[i], <<s1.x, s1.y, 0>>)
                      ELSE @,
                  !.x = s1.x + item_w,
                  !.row_height = Max(s1.row_height, item_h)]

\* The loop over the items, from item i (0-based) on
RECURSIVE FlowItems(_, _, _, _, _, _)
FlowItems(st, i, sizes, starts, width, continuous) ==
    IF i >= Len(sizes)
    THEN st
    ELSE FlowItems(PlaceItem(SwitchSection(st, i, starts, continuous), i,
                             sizes[i + 1][1], sizes[i + 1][2], starts, width),
                   i + 1, sizes, starts, width, continuous)

\* Variant of CloseLastRow that adds the last row to the height without
\* recording it
CloseLastRow_Unrecorded(st) ==
    IF st.row_height > 0
    THEN [st EXCEPT !.y = st.y + st.row_height]
    ELSE st

\* After the loop: the open row is committed
CloseLastRow(st) ==
    IF st.row_height > 0
    THEN [st EXCEPT !.row_heights = PutKey(@, st.y, st.row_height),
                    !.y = st.y + st.row_height]
    ELSE st

\* After the loop: bounds of the last section and of the empty ones behind it
LastBounds(st, secs) ==
    IF Len(secs) > 0
    THEN LET trailing == (st.active_section_idx + 1)..(Len(secs) - 1)
         IN [k \in DOMAIN st.section_bounds \cup {st.active_section_idx} \cup trailing |->
                IF k \in trailing THEN <<st.y, st.y>>
                ELSE IF k = st.active_section_idx
                     THEN <<st.current_section_start_y, st.y>>
                     ELSE st.section_bounds[k]]
    ELSE st.section_bounds

\* Right edge of the run of items p_idx .. last - 1 that stay on line sy
RECURSIVE LineEnd(_, _, _, _, _)
LineEnd(pos, p_idx, last, sy, current_max_x) ==
    IF p_idx >= last \/ pos[p_idx + 1][2] # sy
    THEN current_max_x
    ELSE LineEnd(pos, p_idx + 1, last, sy, pos[p_idx + 1][1] + pos[p_idx + 1][3])

\* Continuous mode: the width of a section's header is the extent of the
\* section's items on the header's row
HeaderWidth(pos, width, secs, sec_idx, sx, sy) ==
    LET section == secs[sec_idx + 1]
        end_page == section.start_page + section.page_count
    IN IF section.start_page < Len(pos)
       THEN LineEnd(pos, section.start_page, Min(end_page, Len(pos)), sy, sx) - sx
       ELSE width - sx

HeaderCoords(coords, pos, width, secs, continuous) ==
    IF Len(secs) > 0 /\ continuous
    THEN [k \in DOMAIN coords |->
             <<coords[k][1], coords[k][2],
               HeaderWidth(pos, width, secs, k, coords[k][1], coords[k][2])>>]
    ELSE coords

\* VirtualLayout.update(item_sizes, available_width, sections) on layout
\* object L; sections = <<>> stands for None and for the empty list
VirtualLayoutUpdate(L, sizes, available_width, secs) ==
    LET L0 == ResetLayout(L, available_width)
    IN IF Len(sizes) = 0
       THEN [L0 EXCEPT !.total_height = 0]
       ELSE LET starts == SectionStarts(secs)
                st == CloseLastRow(FlowItems(StartFlow(L0, secs, starts), 0, sizes,
                                             starts, L0.width, L0.continuous_mode))
            IN [L0 EXCEPT !.positions = st.positions,
                          !.row_heights = st.row_heights,
                          !.total_height = st.y,
                          !.section_bounds = LastBounds(st, secs),
                          !.section_header_coords =
                              HeaderCoords(st.section_header_coords, st.positions,
                                           L0.width, secs, L0.continuous_mode)]

----------------------------------------------------------------------------
(* Asynchronous rendering *)

\* VirtualGrid._render_page_async: nothing when the index is pending or cached
\* at the current class; otherwise mark it pending and submit render_task.
RenderPageAsync(g, index, size) ==
    IF index \in g.pending
    THEN g
    ELSE LET g1 == Images(g)
         IN IF index \in DOMAIN LevelImgs(g1.images_cache, g1.thumbnail_size)
            THEN g1
            ELSE [g1 EXCEPT !.pending = @ \cup {index},
                            !.tasks = Append(@, [index |-> index, size |-> size,
                                                 gen |-> g1.gen, pc |-> "submitted"]),
                            !.sub = @ \cup {index}]

----------------------------------------------------------------------------
(* Smart redraw *)

NoRecord == [base |-> NoId, kind |-> "None", shown |-> NoRaster, box_state |-> NoBox]

\* Tk numbers canvas objects with ids it has never used before.  Only equality
\* of ids in consecutive states is observed, so the model takes the least id
\* used neither by an object that existed when the handler started nor by one
\* created since.
FreshId(g) == CHOOSE n \in 1..(Cardinality(g.ids) + 1) : n \notin g.ids

\* canvas.create_image / create_rectangle for the base of an item
CreateBase(g, index, kind, shown) ==
    [g EXCEPT !.drawn = PutKey(@, index, [base |-> FreshId(g), kind |-> kind,
                                          shown |-> shown, box_state |-> NoBox]),
              !.ids = @ \cup {FreshId(g)}]

\* VirtualGrid.get_box_at
get_box_at(g, index) ==
    IF 0 <= index /\ index < Len(g.boxes) THEN g.boxes[index + 1] ELSE NoBox

\* current_state of _draw_item_smart: (box.state, progress while LOADING else 0)
BoxToken(box) == [state |-> box.state, progress |-> IF box.state = "LOADING" THEN box.progress ELSE 0]

\* VirtualGrid._delete_item_objects
DeleteItemObjects(g, index) == [g EXCEPT !.drawn = DelKey(@, index)]

\* VirtualGrid._draw_box_base: draws the box and records the ids in
\* self._drawn_items[index], creating that dict when the index has none.
DrawBoxBase(g, index) ==
    IF index >= Len(g.positions) \/ get_box_at(g, index) = NoBox
    THEN g
    ELSE CreateBase(g, index, "rectangle", BoxToken(get_box_at(g, index)))

\* The box branch of _draw_item_smart.  item_data is the dict fetched before
\* _delete_item_objects removed it from _drawn_items, so the "_box_state" the
\* code stores after _draw_box_base lands in the discarded dict: the record
\* _draw_box_base created keeps no "_box_state".
DrawBoxSmart(g, index) ==
    LET rec == g.drawn[index]
        box == get_box_at(g, index)
    IN IF box = NoBox
       THEN g
       ELSE IF rec.base = NoId \/ rec.box_state # BoxToken(box)
            THEN DrawBoxBase(DeleteItemObjects(g, index), index)
            ELSE g

\* Variant of DrawPageSmart in which a placeholder stays on the canvas once
\* it is there, whether the raster has arrived or not
DrawPageSmart_KeepBase(g, index) ==
    LET rec == g.drawn[index]
        g1 == Images(g)
        imgs == LevelImgs(g1.images_cache, g1.thumbnail_size)
    IN IF rec.base # NoId
       THEN g1
       ELSE IF index \in DOMAIN imgs
       THEN CreateBase(g1, index, "image", imgs[index])
       ELSE LET g2 == CreateBase(g1, index, "rectangle", NoRaster)
            IN IF index \notin g2.pending
               THEN RenderPageAsync(g2, index, g2.thumbnail_size)
               ELSE g2

\* Variant of DrawPageSmart in which a placeholder whose render is not pending
\* is left alone instead of being submitted again.
DrawPageSmart_NoRetry(g, index) ==
    LET rec == g.drawn[index]
        g1 == Images(g)
        imgs == LevelImgs(g1.images_cache, g1.thumbnail_size)
    IN IF rec.base # NoId /\ index \in DOMAIN imgs /\ rec.kind = "image"
       THEN [g1 EXCEPT !.drawn[index].shown = imgs[index]]
       ELSE IF rec.base # NoId /\ index \notin DOMAIN imgs /\ rec.kind = "rectangle"
       THEN g1
       ELSE IF index \in DOMAIN imgs
       THEN CreateBase(g1, index, "image", imgs[index])
       ELSE LET g2 == CreateBase(g1, index, "rectangle", NoRaster)
            IN IF index \notin g2.pending
               THEN RenderPageAsync(g2, index, g2.thumbnail_size)
               ELSE g2

\* The page branch of _draw_item_smart: reuse the base object when its type
\* fits what the cache holds, otherwise delete and create.
DrawPageSmart(g, index) ==
    LET rec == g.drawn[index]
        g1 == Images(g)
        imgs == LevelImgs(g1.images_cache, g1.thumbnail_size)
    IN IF rec.base # NoId /\ index \in DOMAIN imgs /\ rec.kind = "image"
       THEN [g1 EXCEPT !.drawn[index].shown = imgs[index]]
       ELSE IF rec.base # NoId /\ index \notin DOMAIN imgs /\ rec.kind = "rectangle"
       THEN IF index \notin g1.pending
            THEN RenderPageAsync(g1, index, g1.thumbnail_size)
            ELSE g1
       ELSE IF index \in DOMAIN imgs
       THEN CreateBase(g1, index, "image", imgs[index])
       ELSE LET g2 == CreateBase(g1, index, "rectangle", NoRaster)
            IN IF index \notin g2.pending
               THEN RenderPageAsync(g2, index, g2.thumbnail_size)
               ELSE g2

\* VirtualGrid._draw_item_smart
DrawItemSmart(g, index) ==
    IF index >= Len(g.positions)
    THEN g
    ELSE LET g0 == IF index \in DOMAIN g.drawn
                   THEN g
                   ELSE [g EXCEPT !.drawn = PutKey(@, index, NoRecord)]
         IN IF g0.box_mode THEN DrawBoxSmart(g0, index) ELSE DrawPageSmart(g0, index)

RECURSIVE DrawRange(_, _, _)
DrawRange(g, i, end_idx) ==
    IF i >= end_idx THEN g ELSE DrawRange(DrawItemSmart(g, i), i + 1, end_idx)

\* VirtualGrid._clear_all_drawn_items
ClearAllDrawnItems(g) ==
    [g EXCEPT !.drawn = EmptyImgs, !.last_visible_range = <<0, 0>>, !.drop_line_items = 0]

\* The grid's layout object after _update_layout with sections: its
\* continuous_mode follows the grid's (set_continuous_mode sets both)
GridLayout(g) ==
    VirtualLayoutUpdate([NewLayout EXCEPT !.continuous_mode = g.continuous_mode],
                        g.item_sizes, CanvasWidth, g.sections)

\* _draw_section_headers: a rectangle 24 px high at the top-left corner of the
\* first item of every titled section whose header row is in view, as wide as
\* the title needs (7 px a character and 20 px of padding) up to the extent of
\* the section's items on that row, at least 50 px.  The title's text lies
\* inside the rectangle.
\* _draw_section_headers, steps 1 to 4: the width of the header of a title of
\* title_len characters on a row where the layout allows max_w
FinalWidth(title_len, max_w) == Min(title_len * 7 + 20, Max(50, max_w))

DrawSectionHeaders(g) ==
    LET coords == GridLayout(g).section_header_coords
        drawn_secs == {i \in DOMAIN coords :
                          /\ i < Len(g.sections)
                          /\ ~(coords[i][2] > g.scroll_y + ViewHeight
                               \/ coords[i][2] + 30 < g.scroll_y)
                          /\ Len(g.sections[i + 1].title) > 0}
    IN {[section |-> i,
         rect |-> <<coords[i][1], coords[i][2],
                    coords[i][1] + FinalWidth(Len(g.sections[i + 1].title),
                                              coords[i][3]),
                    coords[i][2] + 24>>] : i \in drawn_secs}

\* VirtualGrid.redraw
\* _draw_drop_indicator finds a place for the line: the end of the target
\* section, the end of the document, or the left edge of item index
DropLinePlaced(g) ==
    IF g.drop_target_section # Nil
    THEN LET s == g.sections[g.drop_target_section + 1]
             last_idx == s.start_page + s.page_count - 1
         IN 0 <= last_idx /\ last_idx < Len(g.positions)
    ELSE IF g.drop_indicator_index = g.item_count /\ g.item_count > 0
    THEN TRUE
    ELSE /\ 0 <= g.drop_indicator_index /\ g.drop_indicator_index < g.item_count
         /\ g.drop_indicator_index < Len(g.positions)

\* redraw, step 4: the drop indicator is drawn with canvas.create_image; the
\* id of the item is not kept, and redraw deletes only the items it has ids
\* or a tag for
DrawDropIndicator(g) ==
    IF (g.drop_indicator_index # -1 \/ g.drop_target_section # Nil) /\ DropLinePlaced(g)
    THEN [g EXCEPT !.drop_line_items = @ + 1]
    ELSE g

Redraw(g) ==
    LET vr == get_visible_range(g.positions, g.scroll_y, ViewHeight)
        visible_set == vr[1]..(vr[2] - 1)
    IN IF g.item_count = 0
       THEN [ClearAllDrawnItems(g) EXCEPT !.redrawn = TRUE, !.header_items = {}]
       ELSE DrawDropIndicator(
                DrawRange([g EXCEPT !.drawn = [j \in DOMAIN g.drawn \cap visible_set |->
                                                  g.drawn[j]],
                                    !.redrawn = TRUE,
                                    !.header_items =
                                        IF g.continuous_mode /\ Len(g.sections) > 0
                                           /\ ~g.box_mode
                                        THEN DrawSectionHeaders(g) ELSE {},
                                    !.last_visible_range = vr],
                          vr[1], vr[2]))

\* VirtualGrid._update_layout; the canvas keeps its view inside the new scroll
\* region (height max(total_height, canvas height)).
UpdateLayout(g) ==
    LET l == IF Len(g.sections) = 0
             THEN LayoutUpdate(g.item_sizes, CanvasWidth)
             ELSE GridLayout(g)
    IN [g EXCEPT !.positions = l.positions,
                 !.total_height = l.total_height,
                 !.scroll_y = Min(@, Max(0, l.total_height - ViewHeight))]

----------------------------------------------------------------------------
(* Handlers of the UI thread, as functions of the grid's fields *)

DefaultSizes(count, size) == [i \in 1..count |-> <<ScaledWidth(size, DefaultAspect), size>>]

\* VirtualGrid.set_item_count(count) (page_sizes not given)
SetItemCountH(g, count) ==
    Redraw(UpdateLayout(ClearAllDrawnItems(
        [g EXCEPT !.item_count = count,
                  !.item_sizes = DefaultSizes(count, g.thumbnail_size),
                  !.aspect_ratios = [i \in 1..count |-> DefaultAspect],
                  !.images_cache = <<>>,
                  !.pending = {}])))

\* VirtualGrid.set_thumbnail_size(size)
SetThumbnailSizeH(g, size) ==
    [Redraw(UpdateLayout(ClearAllDrawnItems(
        [g EXCEPT !.thumbnail_size = size,
                  !.item_sizes = [i \in 1..Len(g.aspect_ratios) |->
                                     <<ScaledWidth(size, g.aspect_ratios[i]), size>>],
                  !.pending = {}])))
     EXCEPT !.preload_due = TRUE]

\* VirtualGrid._on_render_complete(index, pil_img)
OnRenderComplete(g, index, img) ==
    LET fix == index < Len(g.aspect_ratios) /\ g.aspect_ratios[index + 1] = DefaultAspect
        g1 == IF fix
              THEN [g EXCEPT !.aspect_ratios[index + 1] = RasterAspect(img),
                             !.item_sizes[index + 1] =
                                 <<ScaledWidth(g.thumbnail_size, RasterAspect(img)),
                                   g.thumbnail_size>>]
              ELSE g
        g2 == SetImage(g1, index, img)
        vr == get_visible_range(g2.positions, g2.scroll_y, ViewHeight)
    IN IF vr[1] <= index /\ index < vr[2] THEN Redraw(g2) ELSE g2

\* What main_window._on_request_image(index, size) returns when called now:
\* None in box mode or for an index the viewer has no page for.
\* _preload_adjacent_zoom_levels: the levels before and after the current one
LevelsToPreload(size) ==
    LET current_idx == IndexOf(zoom_levels, size)
    IN (IF current_idx > 1 THEN <<zoom_levels[current_idx - 1]>> ELSE <<>>)
       \o (IF current_idx < Len(zoom_levels) THEN <<zoom_levels[current_idx + 1]>> ELSE <<>>)

\* VirtualGrid._preload_adjacent_zoom_levels, the after(500) callback: nothing
\* in box mode or at a size that is no zoom level; otherwise the ZoomPreload
\* thread is started with the levels and the visible range, widened by 30
\* items, captured.  gen and size record when it was started.
PreloadAdjacentZoomLevelsH(g) ==
    IF g.box_mode \/ IndexOf(zoom_levels, g.thumbnail_size) = 0
       \/ LevelsToPreload(g.thumbnail_size) = <<>>
    THEN g
    ELSE LET vr == get_visible_range(g.positions, g.scroll_y, ViewHeight)
         IN [g EXCEPT !.warm = [pc |-> "run",
                                levels |-> LevelsToPreload(g.thumbnail_size),
                                start_idx |-> Max(0, vr[1] - 30),
                                end_idx |-> Min(g.item_count, vr[2] + 30),
                                li |-> 0, page_idx |-> Nil, pil_img |-> NoRaster,
                                gen |-> g.gen, size |-> g.thumbnail_size]]

\* preload_worker from the iteration (li, p) on, up to its next call of
\* on_request_image: a level that has something cached is skipped when it is
\* entered, and so is a page cached at the level.  c is images_cache as the
\* thread reads it; the result is the iteration of the call (page = Nil when
\* both loops have run out) and the loop variable page_idx as last assigned.
RECURSIVE Seek(_, _, _, _, _, _)
Seek(c, w, li, p, entering, page_idx) ==
    IF li > Len(w.levels)
    THEN [li |-> Len(w.levels), page |-> Nil, page_idx |-> page_idx]
    ELSE IF entering /\ DOMAIN LevelImgs(c, w.levels[li]) # {}
    THEN Seek(c, w, li + 1, w.start_idx, TRUE, page_idx)
    ELSE IF p >= w.end_idx
    THEN Seek(c, w, li + 1, w.start_idx, TRUE, page_idx)
    ELSE IF p \in DOMAIN LevelImgs(c, w.levels[li])
    THEN Seek(c, w, li, p + 1, FALSE, p)
    ELSE [li |-> li, page |-> p, page_idx |-> p]

\* save_to_cache, run by the UI thread.  The closure reads zoom_size, page_idx
\* and pil_img of preload_worker when it runs, as the thread has them by
\* then.  The class is created when missing; ImageTk.PhotoImage(None) raises
\* after that, and nothing is stored.
SaveToCacheH(g) ==
    LET zoom_size == g.warm.levels[g.warm.li]
        c1 == IF LevelIdx(g.images_cache, zoom_size) # 0
              THEN g.images_cache
              ELSE Append(g.images_cache, [size |-> zoom_size, imgs |-> EmptyImgs])
    IN [g EXCEPT !.warm_posts = @ - 1,
                 !.images_cache =
                     IF g.warm.pil_img = NoRaster THEN c1
                     ELSE [c1 EXCEPT ![LevelIdx(c1, zoom_size)].imgs =
                               PutKey(@, g.warm.page_idx, g.warm.pil_img)]]

CanRender(g, index) == ~g.box_mode /\ 0 <= index /\ index < g.item_count

\* VirtualGrid._async_calculate_sizes; failing = the indices whose render fails
AsyncCalculateSizesH(g, failing) ==
    LET vr == get_visible_range(g.positions, g.scroll_y, ViewHeight)
        start_idx == Max(0, vr[1] - 10)
        end_idx == Min(g.item_count, vr[2] + 10)
        hit == {i \in start_idx..(end_idx - 1) :
                   /\ i < Len(g.aspect_ratios)
                   /\ g.aspect_ratios[i + 1] = DefaultAspect
                   /\ CanRender(g, i)
                   /\ i \notin failing}
        a(i) == PageAspect(g.rot[i + 1])
        g1 == [g EXCEPT !.aspect_ratios = [i \in 1..Len(@) |->
                                              IF (i - 1) \in hit THEN a(i - 1) ELSE @[i]],
                        !.item_sizes = [i \in 1..Len(@) |->
                                           IF (i - 1) \in hit
                                           THEN <<ScaledWidth(g.thumbnail_size, a(i - 1)),
                                                  g.thumbnail_size>>
                                           ELSE @[i]]]
    IN IF g.item_count = 0 \/ hit = {} THEN g ELSE Redraw(UpdateLayout(g1))

\* MainWindow._update_grid_item_sizes
UpdateGridItemSizes(g) ==
    UpdateLayout([g EXCEPT !.item_sizes =
        [i \in 1..g.item_count |->
            IF CanRender(g, i - 1)
            THEN <<ScaledWidth(g.thumbnail_size, PageAspect(g.rot[i])), g.thumbnail_size>>
            ELSE <<g.thumbnail_size, g.thumbnail_size>>]])

\* the loop of rotate_selected: del self.grid.images[idx] for the selected idx
\* that the CURRENT class holds
DropFromImages(g, selected) ==
    LET g1 == Images(g)
        k == LevelIdx(g1.images_cache, g1.thumbnail_size)
    IN [g1 EXCEPT !.images_cache[k].imgs = [j \in DOMAIN @ \ selected |-> @[j]]]

\* MainWindow.rotate_selected with viewer.selected_pages = selected
RotateSelectedH(g, selected) ==
    Redraw(UpdateGridItemSizes(DropFromImages(
        [g EXCEPT !.rot = [i \in 1..Len(@) |->
                              IF (i - 1) \in selected THEN (@[i] + 1) % 4 ELSE @[i]]],
        selected)))

\* VirtualGrid.clear_image_cache: self.images.clear()
ClearImageCache(g) ==
    LET g1 == Images(g)
        k == LevelIdx(g1.images_cache, g1.thumbnail_size)
    IN [g1 EXCEPT !.images_cache[k].imgs = EmptyImgs]

\* the end of MainWindow.apply numbering: clear_image_cache(), redraw()
NumberingAppliedH(g) == Redraw(ClearImageCache(g))

\* VirtualGrid.set_box_mode(boxes)
SetBoxModeH(g, boxes) ==
    Redraw(UpdateLayout(ClearAllDrawnItems(ClearImageCache(
        [g EXCEPT !.boxes = boxes,
                  !.box_mode = TRUE,
                  !.item_count = Len(boxes),
                  !.cut_mode = FALSE,
                  !.hover_gap = Nil,
                  !.selected_indices = {},
                  !.sections = <<>>,
                  !.item_sizes = [i \in 1..Len(boxes) |-> <<150, 200>>],
                  !.aspect_ratios = [i \in 1..Len(boxes) |-> BoxAspect]]))))

\* sorted(s) of a set of integers
RECURSIVE Sorted(_)
Sorted(S) == IF S = {} THEN <<>> ELSE <<LeastOf(S)>> \o Sorted(S \ {LeastOf(S)})

\* Variant of RemainingBoxes that leaves the selected boxes in as well
RemainingBoxes_All(count, selected) == [k \in 1..count |-> k - 1]

\* reorder_selected_boxes: the indices of the boxes that are not selected,
\* in the order of the list of count boxes
RemainingBoxes(count, selected) ==
    SelectSeq([k \in 1..count |-> k - 1], LAMBDA idx : idx \notin selected)

\* reorder_selected_boxes: where the moved boxes go in the list of the
\* remaining ones; target_index is clamped already
InsertionIndex(selected, target_index, remaining_count) ==
    LET removed_before_target == Cardinality({idx \in selected : idx < target_index})
    IN Max(0, Min(target_index - removed_before_target, remaining_count))

\* VirtualGrid.reorder_selected_boxes(target_index); the result is kept in
\* reorder_call.ret.  selected_indices holds indices of boxes (set_box_mode
\* empties it and the clicks select items under the pointer).
ReorderSelectedBoxesH(g, target_index) ==
    LET selected == Sorted(g.selected_indices)
        clamped == Max(0, Min(target_index, Len(g.boxes)))
        boxes_to_move == [k \in 1..Len(selected) |-> g.boxes[selected[k] + 1]]
        remaining_boxes == RemainingBoxes(Len(g.boxes), g.selected_indices)
        insertion_index == InsertionIndex(g.selected_indices, clamped, Len(remaining_boxes))
        rebuilt == [k \in 1..insertion_index |-> g.boxes[remaining_boxes[k] + 1]]
                   \o boxes_to_move
                   \o [k \in 1..(Len(remaining_boxes) - insertion_index) |->
                          g.boxes[remaining_boxes[insertion_index + k] + 1]]
        call == [target_index |-> target_index, boxes |-> g.boxes,
                 selected |-> g.selected_indices, box_mode |-> g.box_mode, ret |-> FALSE]
    IN IF ~g.box_mode \/ g.selected_indices = {}
       THEN [g EXCEPT !.reorder_call = call]
       ELSE Redraw(UpdateLayout(ClearAllDrawnItems(
                [g EXCEPT !.boxes = rebuilt,
                          !.selected_indices =
                              insertion_index..(insertion_index + Len(boxes_to_move) - 1),
                          !.reorder_call = [call EXCEPT !.ret = TRUE]])))

\* VirtualGrid.set_sections(sections)
SetSectionsH(g, secs) == Redraw(UpdateLayout([g EXCEPT !.sections = secs]))

\* VirtualGrid.set_continuous_mode(enabled)
GridSetContinuousModeH(g, enabled) ==
    IF g.continuous_mode = enabled
    THEN g
    ELSE Redraw(UpdateLayout(ClearAllDrawnItems([g EXCEPT !.continuous_mode = enabled])))

\* VirtualGrid.update_box_state(index), after the host changed the box
UpdateBoxStateH(g, index) ==
    IF g.box_mode /\ 0 <= index /\ index < Len(g.boxes)
    THEN DrawItemSmart(DeleteItemObjects(g, index), index)
    ELSE g

----------------------------------------------------------------------------
(* Selection, click and drag handlers of the grid.  An event e is a record of
   its widget coordinates [x, y]; canvasx is the identity (the canvas does not
   scroll sideways) and canvasy adds the scroll position. *)

\* VirtualLayout.get_item_at: the first item whose box holds the point, -1
get_item_at(pos, x, y) ==
    LET hits == {i \in 0..(Len(pos) - 1) :
                    /\ pos[i + 1][1] <= x /\ x <= pos[i + 1][1] + pos[i + 1][3]
                    /\ pos[i + 1][2] <= y /\ y <= pos[i + 1][2] + pos[i + 1][4]}
    IN IF hits = {} THEN -1 ELSE LeastOf(hits)

\* A callback into the host: recorded in call order with its argument
Call(g, name, arg) == [g EXCEPT !.calls = Append(@, <<name, arg>>)]

Abs(n) == IF n < 0 THEN -n ELSE n

\* _on_motion, first part: the item under the pointer, or a visible item whose
\* box is within 20 px of it
HoverItem(g, cx, cy) ==
    LET index == get_item_at(g.positions, cx, cy)
        vr == get_visible_range(g.positions, g.scroll_y, ViewHeight)
        near == {i \in vr[1]..(vr[2] - 1) :
                    /\ i < Len(g.positions)
                    /\ g.positions[i + 1][1] - 20 <= cx
                    /\ cx <= g.positions[i + 1][1] + g.positions[i + 1][3] + 20
                    /\ g.positions[i + 1][2] - 20 <= cy
                    /\ cy <= g.positions[i + 1][2] + g.positions[i + 1][4] + 20}
    IN IF index # -1 THEN index
       ELSE IF near = {} THEN -1 ELSE LeastOf(near)

\* _on_motion, cut mode: the gap the pointer is nearest to, None at both ends
HoverGap(g, index, cx) ==
    LET new_gap == IF index = -1 THEN Nil
                   ELSE IF 2 * cx < 2 * g.positions[index + 1][1] + g.positions[index + 1][3]
                        THEN index ELSE index + 1
    IN IF new_gap = Nil \/ new_gap <= 0 \/ new_gap >= g.item_count THEN Nil ELSE new_gap

\* _on_motion, bracket detection: the side of the item within 20 px
HoverSide(g, index, cx) ==
    IF cx - g.positions[index + 1][1] < 20 THEN "left"
    ELSE IF g.positions[index + 1][1] + g.positions[index + 1][3] - cx < 20 THEN "right"
    ELSE "None"

\* VirtualGrid._on_motion(event): hover item, hover gap (cut mode) or hover
\* bracket side; redraw when one of them changed
OnMotionH(g, e) ==
    LET cx == e.x
        cy == e.y + g.scroll_y
        index == HoverItem(g, cx, cy)
        g1 == [g EXCEPT !.hover_item_index = index]
        gap == HoverGap(g, index, cx)
        side == IF index = -1 THEN "None" ELSE HoverSide(g, index, cx)
        g2 == IF g.cut_mode
              THEN IF g.hover_gap # gap
                   THEN [g1 EXCEPT !.hover_gap = gap, !.hover_index = -1, !.hover_side = "None"]
                   ELSE g1
              ELSE IF index # -1
                   THEN [g1 EXCEPT !.hover_gap = Nil, !.hover_index = index, !.hover_side = side]
                   ELSE [g1 EXCEPT !.hover_gap = Nil, !.hover_index = -1,
                                   !.hover_side = IF g.hover_index # -1 THEN "None" ELSE @]
        changed == \/ g2.hover_item_index # g.hover_item_index
                   \/ g2.hover_gap # g.hover_gap
                   \/ g2.hover_index # g.hover_index
                   \/ g2.hover_side # g.hover_side
    IN IF changed THEN Redraw(g2) ELSE g2

\* _on_click, bracket click: the first sets the start and selects the item,
\* the second selects the range between the start and the item
\* Variant of BracketClick whose second click leaves the bracket start pending
BracketClick_KeepStart(g, index) ==
    IF g.bracket_start = Nil
    THEN Redraw(Call([g EXCEPT !.bracket_start = index, !.selected_indices = {index}],
                     "on_selection_change", Nil))
    ELSE Redraw(Call([g EXCEPT !.selected_indices = Min(g.bracket_start, index)
                                                      ..Max(g.bracket_start, index)],
                     "on_selection_change", Nil))

BracketClick(g, index) ==
    IF g.bracket_start = Nil
    THEN Redraw(Call([g EXCEPT !.bracket_start = index, !.selected_indices = {index}],
                     "on_selection_change", Nil))
    ELSE Redraw(Call([g EXCEPT !.selected_indices = Min(g.bracket_start, index)
                                                      ..Max(g.bracket_start, index),
                               !.bracket_start = Nil],
                     "on_selection_change", Nil))

\* Variant of PlainSelect that adds the item to the selection
PlainSelect_Add(g, index) ==
    Call(Call(Redraw([g EXCEPT !.bracket_start = Nil,
                               !.selected_indices = @ \cup {index}]),
              "on_selection_change", Nil),
         "on_click", index)

\* _on_click, click on an item that is not selected: select it alone
PlainSelect(g, index) ==
    Call(Call(Redraw([g EXCEPT !.bracket_start = Nil,
                               !.selected_indices = {index}]),
              "on_selection_change", Nil),
         "on_click", index)

\* The click is in the bottom 40 px of a box, its name
InNameArea(g, index, cy) ==
    g.box_mode /\ cy > g.positions[index + 1][2] + g.positions[index + 1][4] - 40

\* canvas.find_overlapping with a fuzz of 5 px around the point: the sections
\* whose header rectangle the 10 px square meets
HeadersAt(g, cx, cy) ==
    {h.section : h \in {hh \in g.header_items :
                            /\ hh.rect[1] <= cx + 5 /\ hh.rect[3] >= cx - 5
                            /\ hh.rect[2] <= cy + 5 /\ hh.rect[4] >= cy - 5}}

\* VirtualGrid._on_click(event), the <Button-1> binding
OnClickH(g, e) ==
    LET cx == e.x
        cy == e.y + g.scroll_y
        index == get_item_at(g.positions, cx, cy)
        g1 == [g EXCEPT !.drag_start_x = e.x, !.drag_start_y = e.y, !.drag_active = FALSE]
    IN IF g.continuous_mode /\ ~g.box_mode /\ HeadersAt(g, cx, cy) # {}
       THEN Call(g, "on_header_rename_request", LeastOf(HeadersAt(g, cx, cy)))
       ELSE IF g1.cut_mode /\ g1.hover_gap # Nil
       THEN Call(g1, "on_split_request", g1.hover_gap)
       ELSE IF index = -1
       THEN g1
       ELSE IF ~g1.cut_mode /\ g1.hover_index = index /\ g1.hover_side # "None"
       THEN BracketClick(g1, index)
       ELSE IF InNameArea(g1, index, cy)
       THEN Call(g1, "on_box_rename_request", index)
       ELSE IF index \in g1.selected_indices
       THEN [g1 EXCEPT !.pending_click_index = index]
       ELSE PlainSelect(g1, index)

\* Variant of OnCtrlClickH that only ever adds the item
OnCtrlClickH_AddOnly(g, e) ==
    LET index == get_item_at(g.positions, e.x, e.y + g.scroll_y)
    IN IF index # -1
       THEN Call(Redraw([g EXCEPT !.selected_indices = @ \cup {index}]),
                 "on_selection_change", Nil)
       ELSE g

\* VirtualGrid._on_ctrl_click(event), the <Control-Button-1> binding
OnCtrlClickH(g, e) ==
    LET index == get_item_at(g.positions, e.x, e.y + g.scroll_y)
    IN IF index # -1
       THEN Call(Redraw([g EXCEPT !.selected_indices =
                                      IF index \in @ THEN @ \ {index} ELSE @ \cup {index}]),
                 "on_selection_change", Nil)
       ELSE g

\* VirtualGrid._on_shift_click(event), the <Shift-Button-1> binding.  last is
\* list(self.selected_indices)[-1]: a set of small ints is listed in
\* increasing order, so it is the greatest selected index.
OnShiftClickH(g, e) ==
    LET index == get_item_at(g.positions, e.x, e.y + g.scroll_y)
    IN IF index # -1 /\ g.selected_indices # {}
       THEN LET last == GreatestOf(g.selected_indices)
            IN Call(Redraw([g EXCEPT !.selected_indices =
                                         @ \cup (Min(last, index)..Max(last, index))]),
                    "on_selection_change", Nil)
       ELSE g

\* _on_drag and _on_release: the end-of-list test.  item_count when the point
\* is below the last item, or on its row and right of its middle; -1 otherwise
EndOfList(g, cx, cy) ==
    LET last == g.positions[Len(g.positions)]
    IN IF cy > last[2] + last[4] THEN g.item_count
       ELSE IF cy >= last[2] /\ 2 * cx > 2 * last[1] + last[3] THEN g.item_count
       ELSE -1

\* The sections whose last page lies on the pointer's row, left of the pointer
EndedLeftOf(g, cx, cy) ==
    {k \in 0..(Len(g.sections) - 1) :
        LET last_page_idx == g.sections[k + 1].start_page + g.sections[k + 1].page_count - 1
        IN /\ 0 <= last_page_idx /\ last_page_idx < Len(g.positions)
           /\ g.positions[last_page_idx + 1][2] <= cy
           /\ cy <= g.positions[last_page_idx + 1][2] + g.positions[last_page_idx + 1][4]
           /\ cx > g.positions[last_page_idx + 1][1] + g.positions[last_page_idx + 1][3]}

\* The drop target under the pointer as _on_drag and _on_release work it out:
\* the item hit; else the end of the list; else the end of the first section
\* whose last page is left of the pointer on its row, with that section
UnderPointer(g, cx, cy) ==
    LET index == get_item_at(g.positions, cx, cy)
        at_end == IF index = -1 /\ g.item_count > 0 THEN EndOfList(g, cx, cy) ELSE index
    IN IF index = -1 /\ g.item_count > 0 /\ at_end = -1 /\ EndedLeftOf(g, cx, cy) # {}
       THEN LET k == LeastOf(EndedLeftOf(g, cx, cy))
            IN [index |-> g.sections[k + 1].start_page + g.sections[k + 1].page_count,
                section |-> k]
       ELSE [index |-> at_end, section |-> Nil]

DropIndex(g, cx, cy) == UnderPointer(g, cx, cy).index


\* _on_drag: the pointer is more than 5 px from the start position recorded
DragThreshold(g, e) == Abs(e.x - g.drag_start_x) > 5 \/ Abs(e.y - g.drag_start_y) > 5

\* The pointer at e is more than 5 px away from (x, y), measured as _on_drag does
Moved(e, x, y) == Abs(e.x - x) > 5 \/ Abs(e.y - y) > 5

\* VirtualGrid._on_drag(event), the <B1-Motion> binding.  fan_ok: the renderer
\* gave at least one thumbnail for the fan (_start_drag_fan).
OnDragH(g, e, fan_ok) ==
    LET cx == e.x
        cy == e.y + g.scroll_y
        index == get_item_at(g.positions, cx, cy)
        g1 == IF ~g.drag_active /\ DragThreshold(g, e)
              THEN IF index # -1 /\ index \in g.selected_indices
                   THEN Call([g EXCEPT !.pending_click_index = Nil,
                                       !.drag_active = TRUE,
                                       !.drag_start_index = index,
                                       !.fan_active = @ \/ fan_ok],
                             "on_drag_start", index)
                   ELSE [g EXCEPT !.pending_click_index = Nil]
              ELSE g
        target == UnderPointer(g1, cx, cy)
        drop == target.index
        visual_indicator == IF target.section # Nil THEN -1 ELSE drop
        g2 == IF g1.drag_active
              THEN [g1 EXCEPT !.drop_target_section = target.section]
              ELSE g1
        g3 == IF /\ g2.drag_active /\ drop # -1
                 /\ (\/ visual_indicator # g2.drop_indicator_index
                     \/ g2.last_drop_section # g2.drop_target_section)
              THEN Redraw([g2 EXCEPT !.drop_indicator_index = visual_indicator,
                                     !.last_drop_section = g2.drop_target_section])
              ELSE g2
    IN IF g3.drag_active /\ drop # -1
       THEN Call(g3, "on_drag_motion", drop)
       ELSE g3

\* main_window._on_drag_end would move pages or boxes for this drop: boxes
\* whenever some are selected or the target differs from the start, pages
\* when some are selected and the target differs from the start
DropMoves(g, drop) ==
    IF g.box_mode
    THEN g.selected_indices # {} \/ (g.drag_start_index # drop /\ drop # -1)
    ELSE g.selected_indices # {} /\ drop # g.drag_start_index

\* VirtualGrid._on_release(event), the <ButtonRelease-1> binding, for drops
\* that move nothing
OnReleaseH(g, e) ==
    LET drop == DropIndex(g, e.x, e.y + g.scroll_y)
    IN IF g.drag_active
       THEN Redraw([(IF drop # -1 THEN Call(g, "on_drag_end", drop) ELSE g)
                        EXCEPT !.drag_active = FALSE,
                               !.drop_indicator_index = -1,
                               !.drop_target_section = Nil,
                               !.fan_active = FALSE])
       ELSE IF g.pending_click_index # Nil
            THEN [Call(g, "on_click", g.pending_click_index)
                      EXCEPT !.pending_click_index = Nil]
            ELSE g

\* main_window.toggle_cut_mode: not in box mode; the grid's flag and a redraw
ToggleCutModeH(g) == Redraw([g EXCEPT !.cut_mode = ~@])


\* find_item_above / find_item_below: the score of a candidate.  Centres are
\* kept doubled (2x + w) so that w / 2 stays whole: the doubled score is
\* 2 * (v_distance * 1000 + h_distance)
Score_HorizontalFirst(v_distance, h_distance2) == v_distance * 2 + h_distance2 * 1000
Score(v_distance, h_distance2) == v_distance * 2000 + h_distance2

\* The candidates of the two searches: item i (0-based) ends before the
\* current item starts, or starts after it ends
EndsBefore(pos, i, index) == pos[i + 1][2] + pos[i + 1][4] <= pos[index + 1][2]
StartsAfter(pos, i, index) == pos[i + 1][2] >= pos[index + 1][2] + pos[index + 1][4]

\* The doubled score of item i seen from the current item
ScoreOf(pos, i, index, above) ==
    Score(IF above THEN pos[index + 1][2] - (pos[i + 1][2] + pos[i + 1][4])
                   ELSE pos[i + 1][2] - (pos[index + 1][2] + pos[index + 1][4]),
          Abs((2 * pos[i + 1][1] + pos[i + 1][3])
              - (2 * pos[index + 1][1] + pos[index + 1][3])))

\* The loop over enumerate(positions) from item i on: best_match is replaced
\* only by a strictly smaller score; Nil stands for None (and for the infinite
\* best_distance that goes with it)
RECURSIVE FindScan(_, _, _, _, _)
FindScan(pos, index, above, i, best_match) ==
    IF i >= Len(pos) THEN best_match
    ELSE IF /\ IF above THEN EndsBefore(pos, i, index) ELSE StartsAfter(pos, i, index)
            /\ \/ best_match = Nil
               \/ ScoreOf(pos, i, index, above) < ScoreOf(pos, best_match, index, above)
         THEN FindScan(pos, index, above, i + 1, i)
         ELSE FindScan(pos, index, above, i + 1, best_match)

\* VirtualGrid.find_item_above(index)
find_item_above(pos, index) ==
    IF index < 0 \/ index >= Len(pos) THEN Nil
    ELSE FindScan(pos, index, TRUE, 0, Nil)

\* VirtualGrid.find_item_below(index)
find_item_below(pos, index) ==
    IF index < 0 \/ index >= Len(pos) THEN Nil
    ELSE FindScan(pos, index, FALSE, 0, Nil)

----------------------------------------------------------------------------
(* State, initial state and the plumbing between variables and handlers *)

BaseIds(d) == {d[i].base : i \in DOMAIN d} \ {NoId}

Cur == [item_count |-> item_count, thumbnail_size |-> thumbnail_size,
        item_sizes |-> item_sizes, aspect_ratios |-> aspect_ratios,
        images_cache |-> images_cache, pending |-> pending_renders,
        tasks |-> tasks, drawn |-> drawn_items, positions |-> positions,
        total_height |-> total_height, scroll_y |-> scroll_y,
        box_mode |-> box_mode, boxes |-> document_boxes, rot |-> page_rot,
        gen |-> doc_gen,
        ids |-> BaseIds(drawn_items), sub |-> {}, redrawn |-> FALSE, ret |-> NoRaster,
        selected_indices |-> selected_indices, bracket_start |-> bracket_start,
        hover_index |-> hover_index, hover_side |-> hover_side,
        hover_item_index |-> hover_item_index, hover_gap |-> hover_gap,
        cut_mode |-> cut_mode, drag_active |-> drag_active,
        drag_start_x |-> drag_start_x, drag_start_y |-> drag_start_y,
        drag_start_index |-> drag_start_index,
        pending_click_index |-> pending_click_index,
        drop_indicator_index |-> drop_indicator_index, fan_active |-> fan_active,
        continuous_mode |-> continuous_mode, sections |-> sections,
        header_items |-> header_items, drop_target_section |-> drop_target_section,
        last_drop_section |-> last_drop_section, drop_line_items |-> drop_line_items,
        reorder_call |-> reorder_call,
        calls |-> <<>>,
        preload_due |-> preload_due, warm |-> warm, warm_posts |-> warm_posts,
        last_visible_range |-> last_visible_range]

\* Store the fields after a handler; the handler's name and what it touched go
\* to the history variable ev.
Commit(g, op, idx) ==
    /\ item_count' = g.item_count
    /\ thumbnail_size' = g.thumbnail_size
    /\ item_sizes' = g.item_sizes
    /\ aspect_ratios' = g.aspect_ratios
    /\ images_cache' = g.images_cache
    /\ pending_renders' = g.pending
    /\ tasks' = g.tasks
    /\ drawn_items' = g.drawn
    /\ positions' = g.positions
    /\ total_height' = g.total_height
    /\ scroll_y' = g.scroll_y
    /\ box_mode' = g.box_mode
    /\ document_boxes' = g.boxes
    /\ page_rot' = g.rot
    /\ doc_gen' = g.gen
    /\ selected_indices' = g.selected_indices
    /\ bracket_start' = g.bracket_start
    /\ hover_index' = g.hover_index
    /\ hover_side' = g.hover_side
    /\ hover_item_index' = g.hover_item_index
    /\ hover_gap' = g.hover_gap
    /\ cut_mode' = g.cut_mode
    /\ drag_active' = g.drag_active
    /\ drag_start_x' = g.drag_start_x
    /\ drag_start_y' = g.drag_start_y
    /\ drag_start_index' = g.drag_start_index
    /\ pending_click_index' = g.pending_click_index
    /\ drop_indicator_index' = g.drop_indicator_index
    /\ fan_active' = g.fan_active
    /\ continuous_mode' = g.continuous_mode
    /\ sections' = g.sections
    /\ header_items' = g.header_items
    /\ drop_target_section' = g.drop_target_section
    /\ last_drop_section' = g.last_drop_section
    /\ drop_line_items' = g.drop_line_items
    /\ g.drop_line_items <= MaxDropLines
    /\ reorder_call' = g.reorder_call
    /\ preload_due' = g.preload_due
    /\ warm' = g.warm
    /\ warm_posts' = g.warm_posts
    /\ last_visible_range' = g.last_visible_range
    /\ ev' = [op |-> op, idx |-> idx, sub |-> g.sub, redraw |-> g.redrawn, ret |-> g.ret]
    /\ wheels_pending' = IF g.redrawn THEN 0 ELSE wheels_pending
    /\ Len(g.tasks) <= MaxTasks

NoSwitch == [phase |-> 0, c |-> 0, cset |-> {}]

\* No ZoomPreload thread: nothing captured, the loop variables unassigned
NoWarm == [pc |-> "none", levels |-> <<>>, start_idx |-> 0, end_idx |-> 0,
           li |-> 0, page_idx |-> Nil, pil_img |-> NoRaster,
           gen |-> 0, size |-> 0]

GridInit ==
    /\ item_count = 0
    /\ thumbnail_size = InitialSize
    /\ item_sizes = <<>>
    /\ aspect_ratios = <<>>
    /\ images_cache = <<>>
    /\ pending_renders = {}
    /\ tasks = <<>>
    /\ ui_queue = <<>>
    /\ drawn_items = EmptyImgs
    /\ positions = <<>>
    /\ total_height = 0
    /\ scroll_y = 0
    /\ scroll_redraw_pending = FALSE
    /\ scroll_redraw_timers = 0
    /\ wheels_pending = 0
    /\ box_mode = FALSE
    /\ document_boxes = <<>>
    /\ page_rot = <<>>
    /\ doc_gen = 0
    /\ size_calc_due = 0
    /\ ev = [op |-> "init", idx |-> {}, sub |-> {}, redraw |-> FALSE, ret |-> NoRaster]
    /\ sw = NoSwitch
    /\ preload_due = FALSE
    /\ warm = NoWarm
    /\ warm_posts = 0
    /\ last_visible_range = <<0, 0>>

----------------------------------------------------------------------------
(* Actions of the UI thread *)

\* The renderer (_on_request_image) is taken as a function of the viewer's
\* current page: Raster(size, rotation, document).  The PageCache it reads
\* through is specified on its own below, so the grid's steps leave it alone.
PageCacheIdle == UNCHANGED cachevars

\* ... and so is the layout object that is laid out on its own
LayoutIdle == UNCHANGED layoutvars

\* ... and so are the objects of the pdf package
DocumentIdle == UNCHANGED documentvars

\* ... and so are the selection and the pointer state, outside the pointer's handlers
PointerIdle == UNCHANGED pointervars

\* The items the grid cache holds for resolution class size
CachedAt(c, size) == DOMAIN LevelImgs(c, size)

\* History of a switch c -> c' -> c: phase 1 after leaving c (remembering what
\* was cached at c), phase 2 once back at c, 0 after any clear or invalidation.
SwitchAfterZoom(size) ==
    IF size = thumbnail_size
    THEN sw
    ELSE IF sw.phase = 1 /\ size = sw.c
    THEN [sw EXCEPT !.phase = 2]
    ELSE [phase |-> 1, c |-> thumbnail_size, cset |-> CachedAt(images_cache, thumbnail_size)]

\* A document is loaded or restructured: the host replaces the viewer's pages
\* and calls grid.set_item_count(len(pages)), which schedules
\* _async_calculate_sizes.
SetItemCount(count) ==
    /\ ~box_mode
    /\ Commit(SetItemCountH([Cur EXCEPT !.gen = @ + 1, !.rot = [i \in 1..count |-> 0]], count),
              "set_item_count", {})
    /\ size_calc_due' = size_calc_due + 1
    /\ sw' = NoSwitch
    /\ UNCHANGED <<ui_queue, scroll_redraw_pending, scroll_redraw_timers>>
    /\ PageCacheIdle /\ LayoutIdle /\ DocumentIdle /\ PointerIdle

ZoomTo(size, op) ==
    /\ ~box_mode
    /\ Commit(SetThumbnailSizeH(Cur, size), op, {})
    /\ sw' = SwitchAfterZoom(size)
    /\ UNCHANGED <<ui_queue, scroll_redraw_pending, scroll_redraw_timers, size_calc_due>>
    /\ PageCacheIdle /\ LayoutIdle /\ DocumentIdle /\ PointerIdle

\* MainWindow.zoom_in
ZoomIn ==
    /\ IndexOf(zoom_levels, thumbnail_size) < Len(zoom_levels)
    /\ ZoomTo(zoom_levels[IndexOf(zoom_levels, thumbnail_size) + 1], "zoom")

\* MainWindow.zoom_out
ZoomOut ==
    /\ IndexOf(zoom_levels, thumbnail_size) > 1
    /\ ZoomTo(zoom_levels[IndexOf(zoom_levels, thumbnail_size) - 1], "zoom")

\* MainWindow.zoom_reset
ZoomReset == ZoomTo(150, "zoom")

\* VirtualGrid._on_resize for a <Configure> event that leaves the width as it was
OnResize ==
    /\ Commit(Redraw(UpdateLayout(Cur)), "redraw", {})
    /\ UNCHANGED <<ui_queue, scroll_redraw_pending, scroll_redraw_timers, size_calc_due, sw>>
    /\ PageCacheIdle /\ LayoutIdle /\ DocumentIdle /\ PointerIdle

\* The after(10) callback _async_calculate_sizes
AsyncCalculateSizes(failing) ==
    /\ size_calc_due > 0
    /\ size_calc_due' = size_calc_due - 1
    /\ Commit(AsyncCalculateSizesH(Cur, failing), "calc_sizes", {})
    /\ UNCHANGED <<ui_queue, scroll_redraw_pending, scroll_redraw_timers, sw>>
    /\ PageCacheIdle /\ LayoutIdle /\ DocumentIdle /\ PointerIdle

\* The UI thread runs the oldest after(0) callback: _on_render_complete
ApplyCompletion ==
    /\ ui_queue # <<>>
    /\ Commit(OnRenderComplete(Cur, Head(ui_queue).index, Head(ui_queue).img),
              "complete", {Head(ui_queue).index})
    /\ ui_queue' = Tail(ui_queue)
    /\ UNCHANGED <<scroll_redraw_pending, scroll_redraw_timers, size_calc_due, sw>>
    /\ PageCacheIdle /\ LayoutIdle /\ DocumentIdle /\ PointerIdle

\* The after(500) callback _preload_adjacent_zoom_levels; one ZoomPreload
\* thread runs at a time, and the callbacks of the one before are done
PreloadAdjacentZoomLevels ==
    /\ preload_due
    /\ warm.pc # "run"
    /\ warm_posts = 0
    /\ \E g \in {PreloadAdjacentZoomLevelsH([Cur EXCEPT !.preload_due = FALSE])} :
           Commit(g, "preload", {})
    /\ UNCHANGED <<ui_queue, scroll_redraw_pending, scroll_redraw_timers, size_calc_due, sw>>
    /\ PageCacheIdle /\ LayoutIdle /\ DocumentIdle /\ PointerIdle

\* The UI thread runs an after(0) callback of the ZoomPreload thread
SaveToCache ==
    /\ warm_posts > 0
    /\ \E g \in {SaveToCacheH(Cur)} : Commit(g, "save_to_cache", {warm.page_idx})
    /\ UNCHANGED <<ui_queue, scroll_redraw_pending, scroll_redraw_timers, size_calc_due, sw>>
    /\ PageCacheIdle /\ LayoutIdle /\ DocumentIdle /\ PointerIdle

\* MainWindow.rotate_selected
RotateSelected(selected) ==
    /\ ~box_mode
    /\ selected # {}
    /\ selected \subseteq 0..(item_count - 1)
    /\ Commit(RotateSelectedH(Cur, selected), "rotate", selected)
    /\ sw' = NoSwitch
    /\ UNCHANGED <<ui_queue, scroll_redraw_pending, scroll_redraw_timers, size_calc_due>>
    /\ PageCacheIdle /\ LayoutIdle /\ DocumentIdle /\ PointerIdle

\* Numbering was stamped on the pages: clear_image_cache() and redraw()
NumberingApplied ==
    /\ ~box_mode
    /\ item_count > 0
    /\ Commit(NumberingAppliedH(Cur), "numbering", 0..(item_count - 1))
    /\ sw' = NoSwitch
    /\ UNCHANGED <<ui_queue, scroll_redraw_pending, scroll_redraw_timers, size_calc_due>>
    /\ PageCacheIdle /\ LayoutIdle /\ DocumentIdle /\ PointerIdle

\* A lookup of the grid cache: _get_image(index)
GetImageLookup(index) ==
    /\ Commit(GetImage(Cur, index), "get_image", {index})
    /\ UNCHANGED <<ui_queue, scroll_redraw_pending, scroll_redraw_timers, size_calc_due, sw>>
    /\ PageCacheIdle /\ LayoutIdle /\ DocumentIdle /\ PointerIdle

\* The boxes a host puts in the staging area: DocumentBox defaults
NewBox == [state |-> "LOADING", progress |-> 0]
\* The values a box takes while it loads (progress in percent)
BoxValues == [state : {"LOADING", "LOADED"}, progress : {0, 50}]

\* VirtualGrid.set_box_mode(boxes) with count freshly created boxes
SetBoxMode(count) ==
    /\ ~box_mode
    /\ Commit(SetBoxModeH(Cur, [i \in 1..count |-> NewBox]), "set_box_mode", {})
    /\ sw' = NoSwitch
    /\ UNCHANGED <<ui_queue, scroll_redraw_pending, scroll_redraw_timers, size_calc_due, ptr>>
    /\ PageCacheIdle /\ LayoutIdle /\ DocumentIdle

\* set_box_mode with the given boxes
SetBoxModeOf(boxes) ==
    /\ ~box_mode
    /\ \E g \in {SetBoxModeH(Cur, boxes)} : Commit(g, "set_box_mode", {})
    /\ sw' = NoSwitch
    /\ UNCHANGED <<ui_queue, scroll_redraw_pending, scroll_redraw_timers, size_calc_due, ptr>>
    /\ PageCacheIdle /\ LayoutIdle /\ DocumentIdle

\* The host calls reorder_selected_boxes(target_index), as _on_drag_end does
\* with the index of the drop
ReorderSelectedBoxes(target_index) ==
    /\ \E g \in {ReorderSelectedBoxesH(Cur, target_index)} :
           Commit(g, "reorder_selected_boxes", {})
    /\ UNCHANGED <<ui_queue, scroll_redraw_pending, scroll_redraw_timers, size_calc_due, sw, ptr>>
    /\ PageCacheIdle /\ LayoutIdle /\ DocumentIdle

\* The host changes box index (state, progress) and calls update_box_state
UpdateBoxState(index, box) ==
    /\ box_mode
    /\ index \in 0..(Len(document_boxes) - 1)
    /\ document_boxes[index + 1] # box
    /\ Commit(UpdateBoxStateH([Cur EXCEPT !.boxes[index + 1] = box], index),
              "update_box_state", {index})
    /\ UNCHANGED <<ui_queue, scroll_redraw_pending, scroll_redraw_timers, size_calc_due, sw>>
    /\ PageCacheIdle /\ LayoutIdle /\ DocumentIdle /\ PointerIdle

\* Variant of ScheduleScrollRedraw that schedules a redraw at every scroll
ScheduleScrollRedraw_Always(redraw_pending, timers) == timers + 1

\* _on_mousewheel: self.after(16, self._debounced_scroll_redraw) unless the
\* flag is set
ScheduleScrollRedraw(redraw_pending, timers) ==
    IF redraw_pending THEN timers ELSE timers + 1

\* VirtualGrid._on_mousewheel without Control: yview_scroll(units, "units"),
\* one unit being a tenth of the canvas height, kept inside the scroll region;
\* the redraw is scheduled unless one is pending already.
OnMousewheel(units) ==
    /\ scroll_y' = Max(0, Min(scroll_y + units * (ViewHeight \div 10),
                              Max(0, total_height - ViewHeight)))
    /\ scroll_redraw_pending' = TRUE
    /\ scroll_redraw_timers' = ScheduleScrollRedraw(scroll_redraw_pending, scroll_redraw_timers)
    /\ scroll_redraw_timers' <= MaxScrollTimers
    /\ wheels_pending' = Min(wheels_pending + 1, MaxWheelsCounted)
    /\ ev' = [op |-> "wheel", idx |-> {}, sub |-> {}, redraw |-> FALSE, ret |-> NoRaster]
    /\ UNCHANGED <<item_count, thumbnail_size, item_sizes, aspect_ratios, images_cache,
                   pending_renders, tasks, ui_queue, drawn_items, positions, total_height,
                   box_mode, document_boxes, page_rot, doc_gen, size_calc_due, sw,
                   preload_due, warm, warm_posts, last_visible_range>>
    /\ PageCacheIdle /\ LayoutIdle /\ DocumentIdle /\ PointerIdle

\* The after(16) callback _debounced_scroll_redraw
DebouncedScrollRedraw ==
    /\ scroll_redraw_timers > 0
    /\ scroll_redraw_timers' = scroll_redraw_timers - 1
    /\ scroll_redraw_pending' = FALSE
    /\ \E g \in {Redraw(Cur)} : Commit(g, "redraw", {})
    /\ UNCHANGED <<ui_queue, size_calc_due, sw>>
    /\ PageCacheIdle /\ LayoutIdle /\ DocumentIdle /\ PointerIdle

----------------------------------------------------------------------------
(* Steps of the worker threads *)

\* render_task up to its self.after(0, ...): the renderer is called with the
\* task's index and size and sees the viewer as it is now; a raster is posted
\* to the UI thread, None or an exception posts nothing.  The pool runs at most
\* max_workers tasks, in submission order.
RenderTask(k, ok) ==
    /\ k \in 1..Len(tasks)
    /\ k <= max_workers
    /\ tasks[k].pc = "submitted"
    /\ IF ok /\ CanRender(Cur, tasks[k].index)
       THEN /\ tasks' = [tasks EXCEPT ![k].pc = "posted"]
            /\ ui_queue' = Append(ui_queue,
                   [index |-> tasks[k].index,
                    gen |-> tasks[k].gen,
                    img |-> Raster(tasks[k].size, page_rot[tasks[k].index + 1], doc_gen)])
            /\ Len(ui_queue') <= MaxTasks
       ELSE /\ tasks' = [tasks EXCEPT ![k].pc = "failed"]
            /\ ui_queue' = ui_queue
    /\ ev' = [op |-> IF ok /\ CanRender(Cur, tasks[k].index) THEN "rendered" ELSE "failed",
              idx |-> {tasks[k].index}, sub |-> {}, redraw |-> FALSE, ret |-> NoRaster]
    /\ UNCHANGED <<item_count, thumbnail_size, item_sizes, aspect_ratios, images_cache,
                   pending_renders, drawn_items, positions, total_height, scroll_y,
                   scroll_redraw_pending, scroll_redraw_timers, wheels_pending, box_mode,
                   document_boxes, page_rot, doc_gen,
                   size_calc_due, sw, preload_due, warm, warm_posts, last_visible_range>>
    /\ PageCacheIdle /\ LayoutIdle /\ DocumentIdle /\ PointerIdle

\* Variant of TaskFinally without the finally clause's pop
TaskFinally_Leak(pend, index) == pend

\* render_task's finally clause: self._pending_renders.pop(index, None)
TaskFinally(pend, index) == pend \ {index}

FinishTask(k) ==
    /\ k \in 1..Len(tasks)
    /\ tasks[k].pc \in {"posted", "failed"}
    /\ pending_renders' = TaskFinally(pending_renders, tasks[k].index)
    /\ tasks' = RemoveAt(tasks, k)
    /\ ev' = [op |-> "finished", idx |-> {tasks[k].index}, sub |-> {}, redraw |-> FALSE,
              ret |-> NoRaster]
    /\ UNCHANGED <<item_count, thumbnail_size, item_sizes, aspect_ratios, images_cache,
                   ui_queue, drawn_items, positions, total_height, scroll_y,
                   scroll_redraw_pending, scroll_redraw_timers, wheels_pending, box_mode,
                   document_boxes, page_rot, doc_gen,
                   size_calc_due, sw, preload_due, warm, warm_posts, last_visible_range>>
    /\ PageCacheIdle /\ LayoutIdle /\ DocumentIdle /\ PointerIdle

\* save_to_cache callbacks that may be queued together
MaxWarmPosts == 2

\* preload_worker up to and with its next on_request_image(page_idx,
\* zoom_size): the renderer sees the viewer as it is now; a raster is posted to
\* the UI thread with after(0, save_to_cache), None posts nothing.  When both
\* loops have run out the thread ends.
PreloadWorker(ok) ==
    /\ warm.pc = "run"
    /\ \E r \in {IF warm.li = 0
                  THEN Seek(images_cache, warm, 1, warm.start_idx, TRUE, warm.page_idx)
                  ELSE Seek(images_cache, warm, warm.li, warm.page_idx + 1, FALSE,
                            warm.page_idx)} :
           IF r.page = Nil
           THEN /\ warm' = [warm EXCEPT !.pc = "done", !.li = r.li, !.page_idx = r.page_idx]
                /\ warm_posts' = warm_posts
                /\ ev' = [op |-> "preload_done", idx |-> {}, sub |-> {}, redraw |-> FALSE,
                          ret |-> NoRaster]
           ELSE /\ warm' = [warm EXCEPT
                               !.li = r.li, !.page_idx = r.page,
                               !.pil_img = IF ok /\ CanRender(Cur, r.page)
                                           THEN Raster(warm.levels[r.li], page_rot[r.page + 1],
                                                       doc_gen)
                                           ELSE NoRaster]
                /\ warm_posts' = IF ok /\ CanRender(Cur, r.page)
                                 THEN warm_posts + 1 ELSE warm_posts
                /\ warm_posts' <= MaxWarmPosts
                /\ ev' = [op |-> "preload_render", idx |-> {r.page}, sub |-> {},
                          redraw |-> FALSE, ret |-> NoRaster]
    /\ UNCHANGED <<item_count, thumbnail_size, item_sizes, aspect_ratios, images_cache,
                   pending_renders, tasks, ui_queue, drawn_items, positions, total_height,
                   scroll_y, scroll_redraw_pending, scroll_redraw_timers, wheels_pending,
                   box_mode, document_boxes, page_rot,
                   doc_gen, size_calc_due, sw, preload_due, last_visible_range>>
    /\ PageCacheIdle /\ LayoutIdle /\ DocumentIdle /\ PointerIdle

----------------------------------------------------------------------------
(* PageCache (src/pdf/cache.py).  The class has no lock; its operations are
   taken here one at a time, each as a single step. *)

\* None as the result of PageCache.get
NoHandle == 0

DigitChar(d) == <<"0", "1", "2", "3", "4", "5", "6", "7", "8", "9">>[d + 1]

\* str(n) for n >= 0, as a sequence of characters
RECURSIVE Digits(_)
Digits(n) == IF n < 10 THEN <<DigitChar(n)>> ELSE Digits(n \div 10) \o <<DigitChar(n % 10)>>

\* PageCache._make_key: f"{pdf_path}:{page_num}:{dpi}"
MakeKey(pdf_path, page_num, dpi) ==
    pdf_path \o <<":">> \o Digits(page_num) \o <<":">> \o Digits(dpi)

\* str.startswith
StartsWith(k, prefix) ==
    Len(prefix) <= Len(k) /\ SubSeq(k, 1, Len(prefix)) = prefix

\* list.remove(key): drops the first occurrence
ListRemove(order, key) == RemoveAt(order, IndexOf(order, key))

\* Variant of GetOrder in which a hit leaves the access order alone
GetOrder_NoTouch(order, key) == order

\* PageCache.get on a hit: move the key to the end of _access_order
GetOrder(order, key) == Append(ListRemove(order, key), key)

\* Variant of PageCacheGet that hands the entry out and forgets it
PageCacheGet_Take(c, key) ==
    IF key \in DOMAIN c.cache
    THEN [cache |-> [k \in DOMAIN c.cache \ {key} |-> c.cache[k]],
          order |-> ListRemove(c.order, key), ret |-> c.cache[key], out |-> {key}]
    ELSE [cache |-> c.cache, order |-> c.order, ret |-> NoHandle, out |-> {}]

\* PageCache.get: the handle cached under key, or None
PageCacheGet(c, key) ==
    IF key \in DOMAIN c.cache
    THEN [cache |-> c.cache, order |-> GetOrder(c.order, key), ret |-> c.cache[key], out |-> {}]
    ELSE [cache |-> c.cache, order |-> c.order, ret |-> NoHandle, out |-> {}]

\* PageCache.put
PageCachePut(c, key, image) ==
    LET evict == Cardinality(DOMAIN c.cache) >= max_size /\ key \notin DOMAIN c.cache
        oldest_key == Head(c.order)
        cache1 == IF evict
                  THEN [k \in DOMAIN c.cache \ {oldest_key} |-> c.cache[k]]
                  ELSE c.cache
        order1 == IF evict THEN Tail(c.order) ELSE c.order
        order2 == IF IndexOf(order1, key) > 0 THEN ListRemove(order1, key) ELSE order1
    IN [cache |-> [k \in DOMAIN cache1 \cup {key} |-> IF k = key THEN image ELSE cache1[k]],
        order |-> Append(order2, key),
        ret |-> NoHandle,
        out |-> IF evict THEN {oldest_key} ELSE {}]

\* PageCache.clear
PageCacheClear(c) ==
    [cache |-> [k \in {} |-> NoHandle], order |-> <<>>, ret |-> NoHandle, out |-> DOMAIN c.cache]

\* PageCache.clear_pdf
PageCacheClearPdf(c, pdf_path) ==
    LET keys_to_remove == {k \in DOMAIN c.cache : StartsWith(k, pdf_path \o <<":">>)}
    IN [cache |-> [k \in DOMAIN c.cache \ keys_to_remove |-> c.cache[k]],
        order |-> SelectSeq(c.order, LAMBDA k : k \notin keys_to_remove),
        ret |-> NoHandle,
        out |-> keys_to_remove]

CurCache == [cache |-> cache, order |-> access_order, ret |-> NoHandle, out |-> {}]

\* One PageCache operation; clock counts them, last_use records for each
\* cached key the operation that last got or put it, and pc_ev records the
\* operation, what it returned, the keys it removed and the operation before.
CacheStep(c, op, key, used) ==
    /\ clock < MaxClock
    /\ clock' = clock + 1
    /\ cache' = c.cache
    /\ access_order' = c.order
    /\ last_use' = [k \in DOMAIN c.cache |->
                       IF k \in used \/ k \notin DOMAIN last_use THEN clock + 1 ELSE last_use[k]]
    /\ pc_ev' = [op |-> op, key |-> key, ret |-> c.ret, out |-> c.out,
                 before |-> [op |-> pc_ev.op, key |-> pc_ev.key, ret |-> pc_ev.ret]]
    /\ UNCHANGED <<gridvars, layoutvars, pointervars, documentvars>>

Get(pdf_path, page_num, dpi) ==
    LET key == MakeKey(pdf_path, page_num, dpi)
    IN CacheStep(PageCacheGet(CurCache, key), "get", key, {key})

\* put of a newly rendered image (a new object at each call)
Put(pdf_path, page_num, dpi) ==
    LET key == MakeKey(pdf_path, page_num, dpi)
    IN CacheStep(PageCachePut(CurCache, key, clock + 1), "put", key, {key})

Clear == CacheStep(PageCacheClear(CurCache), "clear", <<>>, {})

ClearPdf(pdf_path) == CacheStep(PageCacheClearPdf(CurCache, pdf_path), "clear_pdf", pdf_path, {})

CacheInit ==
    /\ cache = [k \in {} |-> NoHandle]
    /\ access_order = <<>>
    /\ last_use = [k \in {} |-> 0]
    /\ clock = 0
    /\ pc_ev = [op |-> "init", key |-> <<>>, ret |-> NoHandle, out |-> {},
                before |-> [op |-> "init", key |-> <<>>, ret |-> NoHandle]]

\* The documents, pages and resolutions the cache is asked for
Paths == {<<"a">>, <<"b">>}
Pages == 0..1
Dpis == {72}

NextCache ==
    \/ \E p \in Paths, n \in Pages, d \in Dpis : Get(p, n, d)
    \/ \E p \in Paths, n \in Pages, d \in Dpis : Put(p, n, d)
    \/ Clear
    \/ \E p \in Paths : ClearPdf(p)

\* Two documents in one directory, the file name of one being that of the
\* other followed by a colon and more: "a" and "a:b"
ColonPaths == {<<"a">>, <<"a", ":", "b">>}

NextColonPaths ==
    \/ \E p \in ColonPaths, n \in Pages, d \in Dpis : Get(p, n, d)
    \/ \E p \in ColonPaths, n \in Pages, d \in Dpis : Put(p, n, d)
    \/ Clear
    \/ \E p \in ColonPaths : ClearPdf(p)

----------------------------------------------------------------------------
(* PdfViewer.get_page_thumbnail and get_page_thumbnail_fast (pdf_viewer.py)
   over the PageCache.  The viewer holds one document, <<"a">>, whose pages
   are the viewer's pages in order.  A rendered image is written as a
   positive number that tells its page and the resolution it was rendered
   at; what a lookup returns is [src, to]: the image src resized to the
   resolution to, or handed out as it is when to is Nil. *)

\* doc.filepath of the viewer's document and len(self.pages)
ViewerPath == <<"a">>
ViewerPages == 2

\* doc.render_page_thumbnail(page_num, dpi)
Rendered(page_num, dpi) == (page_num + 1) * 1000 + dpi

NoLookup == [op |-> "init", page_idx |-> Nil, dpi |-> 0, kind |-> "none",
             image |-> [src |-> NoHandle, to |-> Nil], renders |-> 0,
             before |-> [k \in {} |-> NoHandle]]

\* A lookup that ends with the cache as c, returns image and has rendered
\* renders times
Lookup(c, kind, image, renders) ==
    [cache |-> c.cache, order |-> c.order, kind |-> kind, image |-> image,
     renders |-> renders]

\* get_page_thumbnail(page_idx, dpi): the cached image, or a render that is
\* put in the cache
get_page_thumbnail(c, page_idx, dpi) ==
    LET key == MakeKey(ViewerPath, page_idx, dpi)
        cached == PageCacheGet(c, key)
        image == Rendered(page_idx, dpi)
    IN IF page_idx < 0 \/ page_idx >= ViewerPages
       THEN Lookup(c, "IndexError", [src |-> NoHandle, to |-> Nil], 0)
       ELSE IF cached.ret # NoHandle
       THEN Lookup(cached, "cached", [src |-> cached.ret, to |-> Nil], 0)
       ELSE Lookup(PageCachePut(cached, key, image), "rendered",
                   [src |-> image, to |-> Nil], 1)

common_dpis == <<72, 96, 150, 200>>

Distance(d, target_dpi) == IF d >= target_dpi THEN d - target_dpi ELSE target_dpi - d

\* sorted(common_dpis, key=lambda d: abs(d - target_dpi)): the sort is stable,
\* of two resolutions at the same distance the one listed first comes first
SortedDpis(target_dpi) ==
    LET before(i, j) ==
            \/ Distance(common_dpis[i], target_dpi) < Distance(common_dpis[j], target_dpi)
            \/ /\ Distance(common_dpis[i], target_dpi) = Distance(common_dpis[j], target_dpi)
               /\ i < j
        rank(j) == Cardinality({i \in 1..Len(common_dpis) : before(i, j)})
    IN [k \in 1..Len(common_dpis) |->
           common_dpis[CHOOSE j \in 1..Len(common_dpis) : rank(j) = k - 1]]

\* The loop over the sorted resolutions: the first that is cached, Nil if
\* none is.  A miss leaves the cache as it is.
RECURSIVE BestDpi(_, _, _, _)
BestDpi(c, page_idx, dpis, i) ==
    IF i > Len(dpis) THEN Nil
    ELSE IF PageCacheGet(c, MakeKey(ViewerPath, page_idx, dpis[i])).ret # NoHandle
    THEN dpis[i]
    ELSE BestDpi(c, page_idx, dpis, i + 1)

\* Variant of RescaleAllowed that allows up to twice the cached resolution
RescaleAllowed_Twice(target_dpi, best_dpi) == target_dpi <= 2 * best_dpi

\* scale_factor = target_dpi / best_dpi; scale_factor <= 1.5.  The quotient
\* of two resolutions is a float that is on the side of 1.5 where the exact
\* quotient is
RescaleAllowed(target_dpi, best_dpi) == 2 * target_dpi <= 3 * best_dpi

\* get_page_thumbnail_fast(page_idx, target_dpi)
get_page_thumbnail_fast(c, page_idx, target_dpi) ==
    LET exact_cached == PageCacheGet(c, MakeKey(ViewerPath, page_idx, target_dpi))
        best_dpi == BestDpi(c, page_idx, SortedDpis(target_dpi), 1)
        best_cached == PageCacheGet(c, MakeKey(ViewerPath, page_idx, best_dpi))
    IN IF page_idx < 0 \/ page_idx >= ViewerPages
       THEN Lookup(c, "IndexError", [src |-> NoHandle, to |-> Nil], 0)
       ELSE IF exact_cached.ret # NoHandle
       THEN Lookup(exact_cached, "cached", [src |-> exact_cached.ret, to |-> Nil], 0)
       ELSE IF best_dpi # Nil /\ best_dpi # target_dpi
       THEN IF RescaleAllowed(target_dpi, best_dpi)
            THEN Lookup(best_cached, "rescaled",
                        [src |-> best_cached.ret, to |-> target_dpi], 0)
            ELSE get_page_thumbnail(best_cached, page_idx, target_dpi)
       ELSE IF best_dpi # Nil
       THEN Lookup(best_cached, "cached", [src |-> best_cached.ret, to |-> Nil], 0)
       ELSE get_page_thumbnail(c, page_idx, target_dpi)

\* One lookup of the viewer; the histories of the PageCache's own steps are
\* not kept here
ViewerStep(v, op, page_idx, dpi) ==
    /\ cache' = v.cache
    /\ access_order' = v.order
    /\ viewer_call' = [op |-> op, page_idx |-> page_idx, dpi |-> dpi, kind |-> v.kind,
                       image |-> v.image, renders |-> v.renders, before |-> cache]
    /\ UNCHANGED <<last_use, clock, pc_ev, manager_sections, manager_call>>
    /\ UNCHANGED <<gridvars, layoutvars, pointervars>>

GetPageThumbnail(page_idx, dpi) ==
    \E v \in {get_page_thumbnail(CurCache, page_idx, dpi)} :
        ViewerStep(v, "get_page_thumbnail", page_idx, dpi)

GetPageThumbnailFast(page_idx, target_dpi) ==
    \E v \in {get_page_thumbnail_fast(CurCache, page_idx, target_dpi)} :
        ViewerStep(v, "get_page_thumbnail_fast", page_idx, target_dpi)

\* The resolutions asked of the fast lookup: int(72 * size / 150.0) at the
\* sizes 150, 225, 300 and 450, and the known resolutions 96 and 150
TargetDpis == {72, 96, 108, 144, 150, 216}

\* The viewer on its own: the grid's requests and the lookups at 72 dpi of
\* the other callers, page indices out of range included
NextViewer ==
    \/ \E page_idx \in -1..ViewerPages, d \in TargetDpis :
           GetPageThumbnailFast(page_idx, d)
    \/ \E page_idx \in -1..ViewerPages : GetPageThumbnail(page_idx, 72)

----------------------------------------------------------------------------
(* Pointer events.  Tk hands a button press to the most specific binding
   only, so a press with Control or Shift held reaches _on_ctrl_click or
   _on_shift_click and not _on_click; motion with the button held reaches
   _on_drag, without it _on_motion. *)

\* widget coordinates of the events.  The button goes down, and the pointer
\* hovers, over the left edge of an item, over its middle, or lower in the
\* view; with the button held the pointer moves 3 px right of the middle,
\* lower in the view or right of every item; the button goes up over an item
\* or right of every item.
PressAt == {[x |-> 10, y |-> 20], [x |-> 50, y |-> 20], [x |-> 50, y |-> 80]}
DragTo == {[x |-> 53, y |-> 20], [x |-> 50, y |-> 80], [x |-> 180, y |-> 20]}
ReleaseAt == {[x |-> 50, y |-> 20], [x |-> 180, y |-> 20]}

NoGesture == [down |-> FALSE, kind |-> "none", x |-> 0, y |-> 0, hit |-> -1,
              before |-> {}, moved |-> FALSE, calls |-> <<>>, anchor |-> -1]

NoReorder == [target_index |-> Nil, boxes |-> <<>>, selected |-> {},
              box_mode |-> FALSE, ret |-> FALSE]

PointerInit ==
    /\ selected_indices = {}
    /\ bracket_start = Nil
    /\ hover_index = -1
    /\ hover_side = "None"
    /\ hover_item_index = -1
    /\ hover_gap = Nil
    /\ cut_mode = FALSE
    /\ drag_active = FALSE
    /\ drag_start_x = 0
    /\ drag_start_y = 0
    /\ drag_start_index = Nil
    /\ pending_click_index = Nil
    /\ drop_indicator_index = -1
    /\ fan_active = FALSE
    /\ continuous_mode = FALSE
    /\ sections = <<>>
    /\ header_items = {}
    /\ drop_target_section = Nil
    /\ last_drop_section = Nil
    /\ drop_line_items = 0
    /\ reorder_call = NoReorder
    /\ ptr = NoGesture

\* What a handler leaves alone besides the grid's fields
UiIdle ==
    /\ UNCHANGED <<ui_queue, scroll_redraw_pending, scroll_redraw_timers, size_calc_due, sw>>
    /\ PageCacheIdle /\ LayoutIdle /\ DocumentIdle

\* <Motion>: the pointer moves with no button held
OnMotion(e) ==
    /\ ~ptr.down
    /\ \E g \in {OnMotionH(Cur, e)} :
           /\ Commit(g, "motion", {})
           /\ ptr' = [ptr EXCEPT !.calls = g.calls]
    /\ UiIdle

\* The selection anchor after a press that left the grid as g: the item the
\* press selected when it was a plain or a Control click that added the item
\* to the selection, the anchor as it was otherwise
Anchor(g, kind, hit) ==
    IF /\ kind \in {"plain", "ctrl"}
       /\ hit \in g.selected_indices
       /\ g.selected_indices # selected_indices
    THEN hit
    ELSE ptr.anchor

\* The handler a press of the given kind reaches
PressH(g, kind, e) ==
    IF kind = "ctrl" THEN OnCtrlClickH(g, e)
    ELSE IF kind = "shift" THEN OnShiftClickH(g, e)
    ELSE OnClickH(g, e)

\* <Button-1>, <Control-Button-1>, <Shift-Button-1>: the button goes down at
\* e.  ptr remembers the press, the item under it, the selection before it,
\* whether the pointer has since moved more than 5 px away from it, and the
\* callbacks the last handler made; and, across gestures, the item a click
\* selected last.
Press(kind, e) ==
    /\ ~ptr.down
    /\ \E g \in {PressH(Cur, kind, e)} :
           /\ Commit(g, kind, {})
           /\ ptr' = [down |-> TRUE, kind |-> kind, x |-> e.x, y |-> e.y,
                      hit |-> get_item_at(positions, e.x, e.y + scroll_y),
                      before |-> selected_indices, moved |-> FALSE, calls |-> g.calls,
                      anchor |-> Anchor(g, kind, get_item_at(positions, e.x, e.y + scroll_y))]
    /\ UiIdle

\* <B1-Motion>: the pointer moves to e with the button held
Drag(e, fan_ok) ==
    /\ ptr.down
    /\ \E g \in {OnDragH(Cur, e, fan_ok)} :
           /\ Commit(g, "drag", {})
           /\ ptr' = [ptr EXCEPT !.calls = g.calls,
                                 !.moved = @ \/ Moved(e, ptr.x, ptr.y)]
    /\ UiIdle

\* <ButtonRelease-1>: the button goes up at e
Release(e) ==
    /\ ptr.down
    /\ \E g \in {OnReleaseH(Cur, e)} :
           /\ Commit(g, "release", {})
           /\ ptr' = [NoGesture EXCEPT !.calls = g.calls, !.anchor = ptr.anchor]
    /\ UiIdle

\* The k key: main_window.toggle_cut_mode
ToggleCutMode ==
    /\ ~box_mode
    /\ ~ptr.down
    /\ \E g \in {ToggleCutModeH(Cur)} : Commit(g, "cut_mode", {})
    /\ ptr' = [ptr EXCEPT !.calls = <<>>]
    /\ UiIdle

\* VirtualGrid.set_sections(sections), as the host calls it with the section
\* manager's list
SetSections(secs) ==
    /\ ~box_mode
    /\ ~ptr.down
    /\ \E g \in {SetSectionsH(Cur, secs)} : Commit(g, "set_sections", {})
    /\ ptr' = [ptr EXCEPT !.calls = <<>>]
    /\ UiIdle

\* VirtualGrid.set_continuous_mode(enabled)
GridSetContinuousMode(enabled) ==
    /\ ~ptr.down
    /\ \E g \in {GridSetContinuousModeH(Cur, enabled)} :
           Commit(g, "set_continuous_mode", {})
    /\ ptr' = [ptr EXCEPT !.calls = <<>>]
    /\ UiIdle

\* A plain press would have the host split a section: cut mode, over a gap
Splits == cut_mode /\ hover_gap # Nil

\* The drop at e would have the host move pages or boxes: _on_drag_end moves
\* the selected pages also to where they are when a section is the target
Reorders(e) ==
    /\ drag_active
    /\ DropIndex(Cur, e.x, e.y + scroll_y) # -1
    /\ \/ DropMoves(Cur, DropIndex(Cur, e.x, e.y + scroll_y))
       \/ /\ ~box_mode
          /\ selected_indices # {}
          /\ UnderPointer(Cur, e.x, e.y + scroll_y).section # Nil

\* Scroll positions of the pointer scenarios
ScrollStops == {0, 100}

\* Pages and boxes of the pointer scenarios
PointerPages == 2
PointerBoxes == 1

\* One titled section over all the pages, as the section manager makes for a
\* loaded document
OneSection(count) ==
    <<[start_page |-> 0, page_count |-> count, title |-> <<"D", "o", "c">>]>>

\* Pointer gestures on a loaded grid: one load of pages or boxes, scrolling
\* between the top and one wheel step down, hovering, presses of the three
\* kinds outside cut mode (NextClick has the k key), drags, and releases whose
\* drop moves nothing.  The debounced redraw of a scroll runs before the next
\* pointer event, and the rename dialogs the host opens are cancelled.
NextPointer ==
    \/ item_count = 0 /\ ~box_mode /\ SetItemCount(PointerPages)
    \/ item_count = 0 /\ ~box_mode /\ SetBoxMode(PointerBoxes)
    \/ \E units \in {-WheelUnits, WheelUnits} :
           ~ptr.down /\ ~scroll_redraw_pending /\ OnMousewheel(units)
           /\ scroll_y' \in ScrollStops
    \/ DebouncedScrollRedraw
    \/ \E e \in PressAt : ~scroll_redraw_pending /\ OnMotion(e)
    \/ \E kind \in {"plain", "ctrl", "shift"}, e \in PressAt :
           ~scroll_redraw_pending /\ Press(kind, e)
    \/ \E e \in DragTo, fan_ok \in BOOLEAN : Drag(e, fan_ok)
    \/ \E e \in ReleaseAt : ~Reorders(e) /\ Release(e)

\* Plain clicks in the three views of the grid: pages with the sidebar,
\* pages in the continuous view with a section header, and boxes.  The view
\* is chosen on the empty grid, then pages or boxes are loaded and, for
\* pages, the section list is set.  No press splits a section, and the rename
\* dialogs the host opens are cancelled.
NextClick ==
    \/ \E enabled \in BOOLEAN : item_count = 0 /\ ~box_mode /\ GridSetContinuousMode(enabled)
    \/ item_count = 0 /\ ~box_mode /\ SetItemCount(PointerPages)
    \/ item_count = 0 /\ ~box_mode /\ SetBoxMode(PointerBoxes)
    \/ item_count > 0 /\ sections = <<>> /\ SetSections(OneSection(item_count))
    \/ \E units \in {-WheelUnits, WheelUnits} :
           ~ptr.down /\ ~scroll_redraw_pending /\ OnMousewheel(units)
           /\ scroll_y' \in ScrollStops
    \/ DebouncedScrollRedraw
    \/ ~scroll_redraw_pending /\ ToggleCutMode
    \/ \E e \in PressAt : ~scroll_redraw_pending /\ OnMotion(e)
    \/ \E e \in PressAt : ~scroll_redraw_pending /\ ~Splits /\ Press("plain", e)
    \/ \E e \in ReleaseAt : Release(e)

\* Pages, and the one pointer position, of the range-selection scenarios
ShiftPages == 3
ShiftAt == [x |-> 50, y |-> 20]

\* Clicks of the three kinds on a column of pages scrolled through the view:
\* every page can be brought under the pointer
NextShift ==
    \/ item_count = 0 /\ SetItemCount(ShiftPages)
    \/ \E units \in {-WheelUnits, WheelUnits} : ~ptr.down /\ OnMousewheel(units)
    \/ DebouncedScrollRedraw
    \/ \E kind \in {"plain", "ctrl", "shift"} : Press(kind, ShiftAt)
    \/ Release(ShiftAt)

\* The pointer over the left edge of the item in view
EdgeAt == [x |-> 10, y |-> 20]

\* Bracket selection over a column of pages scrolled through the view: the
\* pointer hovers and clicks over the left edge or the middle of the page in
\* view
NextBracket ==
    \/ item_count = 0 /\ SetItemCount(ShiftPages)
    \/ \E units \in {-WheelUnits, WheelUnits} : ~ptr.down /\ OnMousewheel(units)
    \/ DebouncedScrollRedraw
    \/ \E e \in {EdgeAt, ShiftAt} : OnMotion(e)
    \/ \E e \in {EdgeAt, ShiftAt} : Press("plain", e)
    \/ Release(ShiftAt)

\* Two titled sections of one page each
TwoSections ==
    <<[start_page |-> 0, page_count |-> 1, title |-> <<"A">>],
      [start_page |-> 1, page_count |-> 1, title |-> <<"B">>]>>

\* Where the drags over sections start, pass and end
DropFrom == [x |-> 50, y |-> 20]
DropOver == {[x |-> 50, y |-> 80], [x |-> 180, y |-> 20], [x |-> 180, y |-> 80]}

\* Drags over two one-page sections: the pages are loaded and divided, the
\* view is scrolled, a page is pressed and dragged past the right end of
\* either section's row, and the button is released where the drop moves
\* nothing
NextDrop ==
    \/ item_count = 0 /\ SetItemCount(PointerPages)
    \/ item_count > 0 /\ sections = <<>> /\ SetSections(TwoSections)
    \/ \E units \in {-WheelUnits, WheelUnits} :
           ~scroll_redraw_pending /\ OnMousewheel(units) /\ scroll_y' \in ScrollStops
    \/ DebouncedScrollRedraw
    \/ sections # <<>> /\ ~scroll_redraw_pending /\ Press("plain", DropFrom)
    \/ \E e \in DropOver, fan_ok \in BOOLEAN : Drag(e, fan_ok)
    \/ \E e \in DropOver \cup {DropFrom} : ~Reorders(e) /\ Release(e)

\* Three boxes that differ in how far they are loaded
ThreeBoxes ==
    <<[state |-> "LOADED", progress |-> 0], [state |-> "LOADING", progress |-> 50],
      [state |-> "LOADING", progress |-> 0]>>

\* Target indices handed to reorder_selected_boxes: those of the boxes, the
\* end of the list, and one before and one past them
ReorderTargets == -1..(Len(ThreeBoxes) + 1)

\* Wheel steps that bring the next box under the pointer, and the scroll
\* positions they lead to
BoxWheelUnits == 2 * WheelUnits
BoxStops == {0, 200, 400}

\* Selections in a column of boxes scrolled through the view: the grid is
\* loaded with three boxes, every box can be brought under the pointer and
\* added to or taken from the selection with a Control click, and the host
\* moves the selected boxes to a target index, once, and may ask for it
\* before with nothing selected or no box loaded
NextBoxes ==
    \/ item_count = 0 /\ SetBoxModeOf(ThreeBoxes)
    \/ \E units \in {-BoxWheelUnits, BoxWheelUnits} :
           ~ptr.down /\ ~scroll_redraw_pending /\ OnMousewheel(units)
           /\ scroll_y' \in BoxStops
    \/ DebouncedScrollRedraw
    \/ ~scroll_redraw_pending /\ Press("ctrl", ShiftAt)
    \/ Release(ShiftAt)
    \/ \E target_index \in ReorderTargets :
           /\ ~ptr.down /\ ~scroll_redraw_pending /\ ~reorder_call.ret
           /\ ReorderSelectedBoxes(target_index)

\* Selections across structural changes: a document of two pages is loaded
\* and closed (the host closes it with set_item_count(0)), or a box is loaded;
\* the pages are scrolled under the pointer and clicked with or without a
\* modifier, and the host moves the selected box
NextSelect ==
    \/ \E count \in {0, PointerPages} :
           /\ doc_gen < MaxDocs /\ count # item_count
           /\ ~ptr.down /\ ~scroll_redraw_pending
           /\ SetItemCount(count)
    \/ item_count = 0 /\ SetBoxMode(PointerBoxes)
    \/ \E units \in {-WheelUnits, WheelUnits} :
           ~ptr.down /\ ~scroll_redraw_pending /\ OnMousewheel(units)
           /\ scroll_y' \in {0, 100, 200}
    \/ DebouncedScrollRedraw
    \/ \E kind \in {"plain", "ctrl", "shift"} :
           ~scroll_redraw_pending /\ Press(kind, ShiftAt)
    \/ Release(ShiftAt)
    \/ \E target_index \in 0..PointerBoxes :
           /\ ~ptr.down /\ ~scroll_redraw_pending /\ ~reorder_call.ret
           /\ ReorderSelectedBoxes(target_index)

----------------------------------------------------------------------------
(* The layout engine on its own: one VirtualLayout object, updated again and
   again with the item sizes, widths, sections and mode a host hands to it *)

\* item sizes <<w, h>> and container widths in pixels
LaySizes == {<<100, 150>>, <<40, 120>>}
LayWidths == {-5, 0, 60, 205, 750}

\* n items of one size
Uniform(n, size) == [k \in 1..n |-> size]

\* SectionManager keeps its sections contiguous from page 0: each starts where
\* the one before ends, and a section may be empty.  The list handed to the
\* layout grows by a section of page_count pages, or is emptied.
WithSection(secs, page_count) ==
    Append(secs,
           [start_page |-> IF Len(secs) = 0 THEN 0
                           ELSE secs[Len(secs)].start_page
                                + secs[Len(secs)].page_count,
            page_count |-> page_count])

LayoutInit ==
    /\ layout = NewLayout
    /\ layout_args = [item_sizes |-> <<>>, available_width |-> NewLayout.width,
                      sections |-> <<>>, relaid |-> FALSE]

\* layout.update(item_sizes, available_width, sections); relaid records that
\* the object held another, non-empty layout before the call
UpdateCall(sizes, available_width, secs) ==
    /\ layout' = VirtualLayoutUpdate(layout, sizes, available_width, secs)
    /\ layout_args' = [item_sizes |-> sizes, available_width |-> available_width,
                       sections |-> secs,
                       relaid |-> layout.positions # <<>>
                                  /\ layout.positions # layout'.positions]

\* VirtualGrid.set_continuous_mode: the flag is a field of the layout object
SetContinuousMode(enabled) ==
    /\ layout.continuous_mode # enabled
    /\ layout' = VirtualLayoutUpdate([layout EXCEPT !.continuous_mode = enabled],
                                     layout_args.item_sizes, layout_args.available_width,
                                     layout_args.sections)
    /\ layout_args' = [layout_args EXCEPT !.relaid = layout.positions # <<>>
                                                     /\ layout.positions # layout'.positions]

NextLayout ==
    /\ \/ \E n \in 0..MaxLaidItems, size \in LaySizes :
              UpdateCall(Uniform(n, size), layout_args.available_width, layout_args.sections)
       \/ \E i \in 1..MaxMixed, size \in LaySizes :
              /\ i <= Len(layout_args.item_sizes)
              /\ Len(layout_args.item_sizes) <= MaxMixed
              /\ UpdateCall([layout_args.item_sizes EXCEPT ![i] = size],
                            layout_args.available_width, layout_args.sections)
       \/ \E w \in LayWidths :
              UpdateCall(layout_args.item_sizes, w, layout_args.sections)
       \/ \E page_count \in 0..MaxSectionPages :
              /\ Len(layout_args.sections) < MaxSections
              /\ UpdateCall(layout_args.item_sizes, layout_args.available_width,
                            WithSection(layout_args.sections, page_count))
       \/ /\ layout_args.sections # <<>>
          /\ UpdateCall(layout_args.item_sizes, layout_args.available_width, <<>>)
       \/ \E enabled \in BOOLEAN : SetContinuousMode(enabled)
    /\ UNCHANGED <<gridvars, cachevars, pointervars, documentvars>>

----------------------------------------------------------------------------
(* SectionManager (structure.py).  A section is [start_page, page_count];
   its id, title and split configuration are not read by the operations
   below when they compute start pages and counts, and are left out. *)

\* initialize_default(total_pages): a single section covering all pages
initialize_default(total_pages) ==
    <<[start_page |-> 0, page_count |-> total_pages]>>

\* split_section: index (0-based) of the first section that contains
\* page_index, -1 if none does
TargetSectionIdx(secs, page_index) ==
    LET found == {i \in 0..(Len(secs) - 1) :
                     /\ secs[i + 1].start_page <= page_index
                     /\ page_index < secs[i + 1].start_page + secs[i + 1].page_count}
    IN IF found = {} THEN -1 ELSE LeastOf(found)

\* The list secs with section new_section put in at 0-based index at
InsertAt(secs, at, new_section) ==
    [k \in 1..(Len(secs) + 1) |->
        IF k <= at THEN secs[k]
        ELSE IF k = at + 1 THEN new_section
        ELSE secs[k - 1]]

\* Variant of split_section that leaves the count of the original as it was
split_section_KeepCount(secs, page_index) ==
    LET target_section_idx == TargetSectionIdx(secs, page_index)
        original == secs[target_section_idx + 1]
        split_offset == page_index - original.start_page
        new_count == original.page_count - split_offset
    IN IF target_section_idx = -1 THEN secs
       ELSE IF page_index = original.start_page THEN secs
       ELSE InsertAt(secs, target_section_idx + 1,
                     [start_page |-> page_index, page_count |-> new_count])

\* split_section(page_index): page_index starts a new section
split_section(secs, page_index) ==
    LET target_section_idx == TargetSectionIdx(secs, page_index)
        original == secs[target_section_idx + 1]
        split_offset == page_index - original.start_page
        new_count == original.page_count - split_offset
    IN IF target_section_idx = -1 THEN secs
       ELSE IF page_index = original.start_page THEN secs
       ELSE InsertAt([secs EXCEPT ![target_section_idx + 1].page_count = split_offset],
                     target_section_idx + 1,
                     [start_page |-> page_index, page_count |-> new_count])

\* merge_section_up(section_index): the section joins the one before it
merge_section_up(secs, section_index) ==
    IF section_index <= 0 \/ section_index >= Len(secs)
    THEN secs
    ELSE RemoveAt([secs EXCEPT ![section_index].page_count =
                                   @ + secs[section_index + 1].page_count],
                  section_index + 1)

\* SectionManager.__init__
DocumentInit ==
    /\ manager_sections = <<>>
    /\ manager_call = [op |-> "init", arg |-> 0, before |-> <<>>, total_pages |-> Nil]
    /\ viewer_call = NoLookup

InitializeDefault(total_pages) ==
    /\ UNCHANGED viewer_call
    /\ manager_sections' = initialize_default(total_pages)
    /\ manager_call' = [op |-> "initialize_default", arg |-> total_pages,
                        before |-> manager_sections, total_pages |-> total_pages]

SplitSection(page_index) ==
    /\ UNCHANGED viewer_call
    /\ manager_sections' = split_section(manager_sections, page_index)
    /\ manager_call' = [manager_call EXCEPT !.op = "split_section", !.arg = page_index,
                                            !.before = manager_sections]

MergeSectionUp(section_index) ==
    /\ UNCHANGED viewer_call
    /\ manager_sections' = merge_section_up(manager_sections, section_index)
    /\ manager_call' = [manager_call EXCEPT !.op = "merge_section_up",
                                            !.arg = section_index,
                                            !.before = manager_sections]

\* The section manager on its own: a document of up to MaxManagerPages pages,
\* splits at any page index and merges of any section index, those out of
\* range included
NextSections ==
    /\ \/ \E total_pages \in 0..MaxManagerPages : InitializeDefault(total_pages)
       \/ \E page_index \in -1..MaxManagerPages : SplitSection(page_index)
       \/ \E section_index \in -1..MaxManagerPages : MergeSectionUp(section_index)
    /\ UNCHANGED <<gridvars, cachevars, layoutvars, pointervars>>

----------------------------------------------------------------------------
(* The render pipeline: one load, zooms within ZoomSpan levels above 150 px,
   redraws, worker steps and completions *)

Init == GridInit /\ CacheInit /\ LayoutInit /\ PointerInit /\ DocumentInit

SpanSizes == {zoom_levels[k] : k \in 4..(4 + ZoomSpan)}

Workers ==
    \/ \E k \in 1..MaxTasks, ok \in BOOLEAN : RenderTask(k, ok)
    \/ \E k \in 1..MaxTasks : FinishTask(k)

Next ==
    \/ \E count \in 1..MaxItems : doc_gen < MaxLoads /\ SetItemCount(count)
    \/ ZoomIn /\ thumbnail_size' \in SpanSizes
    \/ ZoomOut /\ thumbnail_size' \in SpanSizes
    \/ ZoomReset
    \/ OnResize
    \/ ApplyCompletion
    \/ Workers

Spec == Init /\ [][Next]_vars

SpecCache == Init /\ [][NextCache]_vars

SpecColonPaths == Init /\ [][NextColonPaths]_vars

SpecSections == Init /\ [][NextSections]_vars

SpecViewer == Init /\ [][NextViewer]_vars

\* The resolutions _on_request_image asks for at the sizes 150 and 180:
\* int(72 * size / 150.0)
TwoDpis == {72, 86}

\* One document cached at two resolutions
NextResolutions ==
    \/ \E n \in Pages, d \in TwoDpis : Get(<<"a">>, n, d)
    \/ \E n \in Pages, d \in TwoDpis : Put(<<"a">>, n, d)

SpecResolutions == Init /\ [][NextResolutions]_vars

\* A zoom tour of a loaded document through all of zoom_levels: the user
\* zooms out first, zooms in from the initial size upwards and resets at will,
\* each time after the outstanding renders are done; the renderer delivers
\* rasters for the classes of SpanSizes only and fails for the others.
Quiet == tasks = <<>> /\ ui_queue = <<>>

NextZoom ==
    \/ \E count \in 1..ZoomItems : doc_gen < MaxLoads /\ SetItemCount(count)
    \/ Quiet /\ item_count > 0 /\ thumbnail_size >= InitialSize /\ ZoomIn
    \/ /\ Quiet /\ item_count > 0
       /\ \A k \in 1..Len(images_cache) : images_cache[k].size <= InitialSize
       /\ ZoomOut
    \/ Quiet /\ item_count > 0 /\ ZoomReset
    \/ ApplyCompletion
    \/ \E k \in 1..MaxTasks, ok \in BOOLEAN :
           k <= Len(tasks) /\ (ok => tasks[k].size \in SpanSizes) /\ RenderTask(k, ok)
    \/ \E k \in 1..MaxTasks : FinishTask(k)

SpecZoom == Init /\ [][NextZoom]_vars

\* Zooming and reloading a one-page document while the ZoomPreload thread
\* warms the levels next to the current one; the user zooms when the
\* outstanding renders are done, and the render tasks succeed
NextWarm ==
    \/ doc_gen < MaxDocs /\ SetItemCount(ZoomItems)
    \/ Quiet /\ ZoomIn /\ thumbnail_size' \in SpanSizes
    \/ Quiet /\ ZoomOut /\ thumbnail_size' \in SpanSizes
    \/ PreloadAdjacentZoomLevels
    \/ \E ok \in BOOLEAN : PreloadWorker(ok)
    \/ SaveToCache
    \/ ApplyCompletion
    \/ \E k \in 1..MaxTasks : RenderTask(k, TRUE)
    \/ \E k \in 1..MaxTasks : FinishTask(k)

SpecWarm == Init /\ [][NextWarm]_vars

\* Lookups of the two caches between the operations that fill them
NextLookup ==
    \/ \E count \in 1..MaxItems : doc_gen < MaxLoads /\ SetItemCount(count)
    \/ \E index \in 0..(MaxItems - 1) : GetImageLookup(index)
    \/ ApplyCompletion
    \/ Workers
    \/ \E n \in Pages : Get(<<"a">>, n, 72)
    \/ \E n \in Pages : Put(<<"a">>, n, 72)

SpecLookup == Init /\ [][NextLookup]_vars

\* The same behaviours with the scheduling the thread pool has: every
\* submitted task is run by one of its workers, and a task that has run
\* reaches its finally clause.
SpecLive ==
    /\ Init
    /\ [][Next]_vars
    /\ \A k \in 1..MaxTasks : WF_vars(\E ok \in BOOLEAN : RenderTask(k, ok))
    /\ \A k \in 1..MaxTasks : WF_vars(FinishTask(k))

\* Document loads and reloads while renders are in flight
NextReload ==
    \/ \E count \in 1..MaxItems : doc_gen < MaxDocs /\ SetItemCount(count)
    \/ \E failing \in SUBSET (0..(MaxItems - 1)) : AsyncCalculateSizes(failing)
    \/ ApplyCompletion
    \/ Workers

SpecReload == Init /\ [][NextReload]_vars

\* Content mutations (rotation, numbering) after zooming in
NextMutate ==
    \/ \E count \in 1..MutItems : doc_gen < MaxLoads /\ SetItemCount(count)
    \/ ZoomIn /\ thumbnail_size' \in SpanSizes
    \/ \E selected \in SUBSET (0..(MutItems - 1)) :
           /\ \A i \in selected \cap (0..(item_count - 1)) : page_rot[i + 1] < MaxRot
           /\ RotateSelected(selected)
    \/ NumberingApplied
    \/ ApplyCompletion
    \/ Workers

SpecMutate == Init /\ [][NextMutate]_vars

\* Redraw cycles in page mode (a document is loaded) and in box mode (the
\* staging area is opened on the empty grid): scrolling, render completions
\* and box updates
NextRedraw ==
    \/ \E count \in 1..MaxItems : doc_gen < MaxLoads /\ SetItemCount(count)
    \/ \E count \in 1..MaxItems : item_count = 0 /\ SetBoxMode(count)
    \/ \E index \in 0..(MaxItems - 1), box \in BoxValues : UpdateBoxState(index, box)
    \/ \E units \in {-WheelUnits, WheelUnits} : OnMousewheel(units)
    \/ DebouncedScrollRedraw
    \/ ApplyCompletion
    \/ Workers

SpecRedraw == Init /\ [][NextRedraw]_vars

\* The layout engine driven on its own
SpecLayout == Init /\ [][NextLayout]_vars

\* Pointer gestures on a loaded grid
SpecPointer == Init /\ [][NextPointer]_vars

\* Plain clicks in the three views
SpecClick == Init /\ [][NextClick]_vars

\* Range selection over three pages
SpecShift == Init /\ [][NextShift]_vars

\* Bracket selection over three pages
SpecBracket == Init /\ [][NextBracket]_vars

\* Drags over two sections
SpecDrop == Init /\ [][NextDrop]_vars

SpecBoxes == Init /\ [][NextBoxes]_vars

SpecSelect == Init /\ [][NextSelect]_vars

\* Wheel scrolls at any time over a column of two pages or of three boxes,
\* the debounced redraws, and plain clicks on the item under the pointer
NextScroll ==
    \/ item_count = 0 /\ ~box_mode /\ SetItemCount(PointerPages)
    \/ item_count = 0 /\ SetBoxModeOf(ThreeBoxes)
    \/ \E units \in {-WheelUnits, WheelUnits} : OnMousewheel(units)
    \/ DebouncedScrollRedraw
    \/ Press("plain", ShiftAt)
    \/ Release(ShiftAt)

SpecScroll == Init /\ [][NextScroll]_vars

\* A callback scheduled with after(16, ...) leaves Tk's timer queue when it is
\* run; _debounced_scroll_redraw is the only step that takes one off
ScrollTimerFires ==
    /\ scroll_redraw_timers > 0
    /\ scroll_redraw_timers' = scroll_redraw_timers - 1

\* The same behaviours with the scheduling Tk's event loop has: a callback
\* scheduled with after(16, ...) is run once it is due
SpecScrollLive == SpecScroll /\ WF_scroll_redraw_timers(ScrollTimerFires)

----------------------------------------------------------------------------
(* Claims about the render pipeline *)

\* The renders in flight, as (resolution class, item index) keys: a task from
\* its submission until its result is posted or it has failed and finished,
\* and a posted result until the UI thread has applied it.
Running == SelectSeq(tasks, LAMBDA t : t.pc # "posted")
InFlight ==
    [k \in 1..Len(Running) |-> <<Running[k].size, Running[k].index>>]
    \o [k \in 1..Len(ui_queue) |-> <<ui_queue[k].img.size, ui_queue[k].index>>]

\* C1: at any time at most one render of a given (resolution class, item
\* index) is in flight, from its submission until its result has been applied
\* on the UI thread.
C1_OneRenderInFlightPerKey ==
    \A j, k \in 1..Len(InFlight) : j # k => InFlight[j] # InFlight[k]

\* C2: every raster held under a resolution class was rendered for that class.
C2_RasterStoredUnderItsClass ==
    \A k \in 1..Len(images_cache) :
        \A i \in DOMAIN images_cache[k].imgs :
            images_cache[k].imgs[i].size = images_cache[k].size

\* The indices the last layout and the current scroll position make visible
Visible ==
    LET vr == get_visible_range(positions, scroll_y, ViewHeight) IN vr[1]..(vr[2] - 1)

\* C5: a failed render creates no cache entry and leaves the item's
\* placeholder in place; once the failed task has finished, the next redraw in
\* which the item is visible and still uncached submits a new request for it
\* and keeps the placeholder; when a result is applied for a visible item the
\* base becomes that raster.
C5_Step ==
    /\ ev'.op = "failed" =>
           /\ images_cache' = images_cache
           /\ drawn_items' = drawn_items
           /\ ui_queue' = ui_queue
    /\ ev'.op = "finished" => \A i \in ev'.idx : i \notin pending_renders'
    /\ ev'.op = "redraw" /\ ~box_mode =>
           \A i \in Visible' :
               i \notin CachedAt(images_cache, thumbnail_size) /\ i \notin pending_renders =>
                   /\ i \in ev'.sub
                   /\ i \in pending_renders'
                   /\ \E k \in 1..Len(tasks') :
                          /\ tasks'[k].index = i
                          /\ tasks'[k].size = thumbnail_size
                          /\ tasks'[k].pc = "submitted"
                   /\ drawn_items'[i].kind = "rectangle"
                   /\ i \notin CachedAt(images_cache', thumbnail_size)
    /\ ev'.op = "complete" /\ ~box_mode =>
           \A i \in ev'.idx :
               i \in Visible =>
                   /\ i \in CachedAt(images_cache', thumbnail_size)
                   /\ drawn_items'[i].kind = "image"
                   /\ drawn_items'[i].shown = Head(ui_queue).img

C5_FailureIsRetried == [][C5_Step]_vars

\* C5 witness: a plain redraw has just resubmitted a render although no result
\* is waiting to be applied, which only happens after a render failed.
C5_Witness ==
    /\ ev.op = "redraw"
    /\ ev.sub # {}
    /\ ui_queue = <<>>
    /\ \A i \in ev.sub : drawn_items[i].kind = "rectangle"

\* C6: no index stays pending forever: whatever the outcome of a task, its
\* finally clause removes the index from the pending set, and tasks submitted
\* after a failing one still run.
C6_PendingIsCleared ==
    \A i \in 0..(MaxItems - 1) : (i \in pending_renders) ~> (i \notin pending_renders)

\* C6 witness: a task whose render failed has finished and its index is no
\* longer pending (nothing was posted, nothing is cached).
C6_Witness ==
    /\ ev.op = "finished"
    /\ ui_queue = <<>>
    /\ \A i \in ev.idx :
           /\ i \notin pending_renders
           /\ \A k \in 1..Len(images_cache) : i \notin DOMAIN images_cache[k].imgs
           /\ \A k \in 1..Len(tasks) : tasks[k].index # i

\* C3: a render result whose request was submitted before the latest
\* set_item_count is not applied after it: the step that handles it inserts no
\* raster into the cache and changes no aspect ratio and no item size.
C3_Step ==
    ev'.op = "complete" /\ Head(ui_queue).gen # doc_gen =>
        /\ \A k \in 1..Len(images_cache') : images_cache'[k].imgs = EmptyImgs
               \/ \E j \in 1..Len(images_cache) : images_cache[j] = images_cache'[k]
        /\ aspect_ratios' = aspect_ratios
        /\ item_sizes' = item_sizes

C3_StaleResultDropped == [][C3_Step]_vars

\* C7: right after an item's content was mutated and the item invalidated
\* (rotate_selected, or the cache clear after numbering), no resolution class
\* of the grid cache holds a raster for that item.
C7_InvalidatedInEveryClass ==
    ev.op \in {"rotate", "numbering"} =>
        \A k \in 1..Len(images_cache) :
            \A i \in ev.idx : i \notin DOMAIN images_cache[k].imgs

\* A redraw cycle with no zoom, reflow or mode change: redraw() run by the
\* scroll timer, by a resize to the same width or by a render completion.
RedrawCycle == ev'.redraw /\ ev'.op \in {"redraw", "complete"} /\ box_mode' = box_mode

\* The items drawn by the previous cycle and by this one whose content token
\* (the raster or placeholder shown, the box's state tuple) is the same
SameToken ==
    {i \in DOMAIN drawn_items \cap DOMAIN drawn_items' :
        drawn_items[i].shown = drawn_items'[i].shown}

C8_PageStep ==
    RedrawCycle /\ ~box_mode =>
        \A i \in SameToken : drawn_items'[i].base = drawn_items[i].base

C8_BoxStep ==
    RedrawCycle /\ box_mode =>
        \A i \in SameToken : drawn_items'[i].base = drawn_items[i].base

\* C8: across two consecutive redraw cycles with no zoom, reflow or mode
\* change between them, an item visible in both whose content token is
\* unchanged keeps the same base canvas object, in page mode and in box mode.
C8_BaseObjectReused == [][C8_PageStep /\ C8_BoxStep]_vars

\* The page-mode half of C8 taken alone
C8_PageModeOnly == [][C8_PageStep]_vars

----------------------------------------------------------------------------
(* Claims about PageCache *)

\* The cached keys whose latest get or put is the oldest
LeastRecent == {v \in DOMAIN cache : \A k \in DOMAIN cache : last_use[v] <= last_use[k]}
\* The cached keys got or put most recently
MostRecent == {v \in DOMAIN cache : \A k \in DOMAIN cache : last_use[v] >= last_use[k]}

\* C9: a put of a new key into a cache holding max_size entries evicts exactly
\* one entry, the one whose latest get or put is the oldest, never the key just
\* inserted nor the most recently accessed entry; a put of a key already
\* present evicts nothing.
C9_Step ==
    pc_ev'.op = "put" =>
        /\ pc_ev'.key \in DOMAIN cache'
        /\ pc_ev'.key \in DOMAIN cache => DOMAIN cache' = DOMAIN cache
        /\ pc_ev'.key \notin DOMAIN cache /\ Cardinality(DOMAIN cache) = max_size =>
               \E victim \in LeastRecent :
                   /\ DOMAIN cache' = (DOMAIN cache \ {victim}) \cup {pc_ev'.key}
                   /\ victim # pc_ev'.key
                   /\ victim \notin MostRecent
                   /\ Cardinality(DOMAIN cache') = max_size

C9_PutEvictsLeastRecent == [][C9_Step]_vars

\* C9 witness: the cache is full, the key that was put first has been got
\* since, and the put of a new key has just evicted another one.
C9_Witness ==
    /\ pc_ev.op = "put"
    /\ pc_ev.out # {}
    /\ Cardinality(DOMAIN cache) = max_size
    /\ \E k \in DOMAIN cache : cache[k] = 1 /\ last_use[k] > 1
    /\ cache[pc_ev.key] = clock

\* The (resolution class, item) keys the grid cache holds
CachedKeys(c) == UNION {{<<c[k].size, i>> : i \in DOMAIN c[k].imgs} : k \in 1..Len(c)}

\* C10: a lookup does not change which keys are cached, and two consecutive
\* lookups of the same key with no put, invalidation, clear or render
\* completion between them return the same handle; for the grid cache
\* (_get_image) and for PageCache.get.
C10_Step ==
    /\ ev'.op = "get_image" =>
           /\ CachedKeys(images_cache') = CachedKeys(images_cache)
           /\ ev.op = "get_image" /\ ev.idx = ev'.idx => ev'.ret = ev.ret
    /\ pc_ev'.op = "get" =>
           /\ cache' = cache
           /\ pc_ev.op = "get" /\ pc_ev.key = pc_ev'.key => pc_ev'.ret = pc_ev.ret

C10_LookupIsStable == [][C10_Step]_vars

\* C10 witness: PageCache.get has returned a handle twice in a row for a key,
\* and the grid's last operation is a lookup that returned a cached raster.
C10_Witness ==
    /\ pc_ev.op = "get"
    /\ pc_ev.ret # NoHandle
    /\ pc_ev.before.op = "get"
    /\ pc_ev.before.key = pc_ev.key
    /\ pc_ev.before.ret = pc_ev.ret
    /\ ev.op = "get_image"
    /\ ev.ret # NoRaster

\* C4: after a switch from class c to another class and back to c with no
\* clear or invalidation in between, the redraws at c enqueue no render for
\* an item that was cached at c before the switch.
C4_NoRenderAfterSwitchBack == sw.phase = 2 => ev.sub \cap sw.cset = {}

----------------------------------------------------------------------------
(* Claims about VirtualLayout.update *)

\* The items (1-based) the last update placed on the row at y
RowItems(y) == {i \in 1..Len(layout.positions) : layout.positions[i][2] = y}
RowYs == {layout.positions[i][2] : i \in 1..Len(layout.positions)}

\* C11: in every layout, with or without sections and in both modes, two
\* items placed at the same y have disjoint x-intervals [x, x + width), and y
\* never decreases as the item index increases.
C11_RowsDisjointAndOrdered ==
    LET pos == layout.positions
    IN \A i, j \in 1..Len(pos) :
           i < j =>
               /\ pos[i][2] <= pos[j][2]
               /\ pos[i][2] = pos[j][2] =>
                      \/ pos[i][1] + pos[i][3] <= pos[j][1]
                      \/ pos[j][1] + pos[j][3] <= pos[i][1]

\* C11 witness: a layout with sections in the continuous mode that has a row
\* of several items and more than one row
C11_Witness ==
    /\ layout.continuous_mode
    /\ Len(layout_args.sections) > 1
    /\ Cardinality(RowYs) > 1
    /\ \E y \in RowYs : Cardinality(RowItems(y)) > 1
    /\ \E y \in RowYs : \E i, j \in RowItems(y) :
           layout_args.item_sizes[i] # layout_args.item_sizes[j]

RECURSIVE SumOver(_, _)
SumOver(f, S) ==
    IF S = {} THEN 0
    ELSE LET k == CHOOSE k \in S : TRUE IN f[k] + SumOver(f, S \ {k})

\* C12: total_height is the sum of the values of row_heights; the rows
\* committed are those of the items, and each row's height is its tallest
\* item plus the gap.
C12_TotalHeightIsSumOfRows ==
    /\ layout.total_height = SumOver(layout.row_heights, DOMAIN layout.row_heights)
    /\ DOMAIN layout.row_heights = RowYs
    /\ \A y \in RowYs :
           /\ \E i \in RowItems(y) : layout.row_heights[y] = layout.positions[i][4] + sepsize
           /\ \A i \in RowItems(y) : layout.row_heights[y] >= layout.positions[i][4] + sepsize

\* C12 witness: a layout outside the continuous mode where a section break
\* closed a row early, with rows of different heights
C12_Witness ==
    /\ ~layout.continuous_mode
    /\ Cardinality(RowYs) > 2
    /\ \E y1, y2 \in RowYs : layout.row_heights[y1] # layout.row_heights[y2]
    /\ \E k \in 1..Len(layout_args.sections) :
           LET i == layout_args.sections[k].start_page
           IN /\ i > 0 /\ i < Len(layout.positions)
              /\ layout.positions[i][1] + layout.positions[i][3] + sepsize
                     + layout.positions[i + 1][3] + sepsize <= layout.width

\* The start pages of sections that are indices of items other than item 0
InnerStarts ==
    {layout_args.sections[k].start_page : k \in 1..Len(layout_args.sections)}
        \cap 1..(Len(layout.positions) - 1)

\* The row of item i - 1 (0-based) had room for item i
HadRoom(i) ==
    layout.positions[i][1] + layout.positions[i][3] + sepsize
        + layout_args.item_sizes[i + 1][1] + sepsize <= layout.width

\* C13: outside the continuous mode every item that starts a section, other
\* than item 0, is at x = 0 on a row strictly below the item before it.
C13_SectionStartsNewRow ==
    ~layout.continuous_mode =>
        \A i \in InnerStarts :
            /\ layout.positions[i + 1][1] = 0
            /\ layout.positions[i + 1][2] > layout.positions[i][2]

\* C13 witness: a section starts at an item that would have fitted the row of
\* the item before it
C13_Witness ==
    /\ ~layout.continuous_mode
    /\ \E i \in InnerStarts : HadRoom(i)

\* C14: the layout object after update is what a newly constructed object in
\* the same mode yields for the same arguments, in every field.
C14_UpdateIsFunctionOfInputs ==
    layout = VirtualLayoutUpdate([NewLayout EXCEPT !.continuous_mode = layout.continuous_mode],
                                 layout_args.item_sizes, layout_args.available_width,
                                 layout_args.sections)

\* C14 witness: an update with sections on an object that held a different,
\* non-empty layout before
C14_Witness ==
    /\ layout_args.relaid
    /\ layout.positions # <<>>
    /\ DOMAIN layout.section_bounds # {}
    /\ DOMAIN layout.section_header_coords # {}

\* All items have the width of the first
EqualWidths ==
    \A i \in 1..Len(layout_args.item_sizes) :
        layout_args.item_sizes[i][1] = layout_args.item_sizes[1][1]

PerRow == Max(1, layout.width \div (layout_args.item_sizes[1][1] + sepsize))

\* The arguments of scenario A
ScenarioA ==
    /\ layout_args.item_sizes = Uniform(10, <<100, 150>>)
    /\ layout_args.available_width = 750
    /\ layout_args.sections = <<>>

\* C15: with no sections and items of equal width w, every row but the last
\* holds max(1, floor(W / (w + gap))) items and the last holds no more; with
\* 10 items of width 100 in a container of 750, items 0..6 are on the first
\* row and item 7 is at x = 0 on the second.
C15_EqualItemsPerRow ==
    /\ (layout_args.sections = <<>> /\ Len(layout_args.item_sizes) > 0 /\ EqualWidths) =>
           \A y \in RowYs :
               IF y = GreatestOf(RowYs)
               THEN Cardinality(RowItems(y)) <= PerRow
               ELSE Cardinality(RowItems(y)) = PerRow
    /\ ScenarioA =>
           /\ \A i \in 1..7 : layout.positions[i][2] = 0
           /\ layout.positions[8][1] = 0
           /\ layout.positions[8][2] = 150 + sepsize
           /\ RowItems(0) = 1..7

\* C15 witness: scenario A has been laid out
C15_Witness == ScenarioA /\ Len(layout.positions) = 10 /\ Cardinality(RowYs) = 2

\* C16: update yields one position per item; the width it lays out in is at
\* least 1, and 1 for an argument of 0 or less; an item wider than that is at
\* x = 0 and alone on its row; no items give no positions and height 0.
C16_DegenerateInputs ==
    /\ Len(layout.positions) = Len(layout_args.item_sizes)
    /\ layout.width = Max(1, layout_args.available_width)
    /\ layout_args.available_width <= 0 => layout.width = 1
    /\ \A i \in 1..Len(layout.positions) :
           /\ layout.positions[i][3] = layout_args.item_sizes[i][1]
           /\ layout.positions[i][4] = layout_args.item_sizes[i][2]
           /\ layout.positions[i][3] > layout.width =>
                  /\ layout.positions[i][1] = 0
                  /\ RowItems(layout.positions[i][2]) = {i}
    /\ layout_args.item_sizes = <<>> =>
           /\ layout.positions = <<>>
           /\ layout.total_height = 0

\* C16 witness: several items and sections laid out in a container of width 0
\* or less, after the object held another layout
C16_Witness ==
    /\ layout_args.available_width <= 0
    /\ Len(layout.positions) > 1
    /\ Len(layout_args.sections) > 0
    /\ layout_args.relaid

----------------------------------------------------------------------------
(* Pointer gestures *)

\* The button goes down, goes up, in this step
Pressed == ~ptr.down /\ ptr'.down
Released == ptr.down /\ ~ptr'.down

\* The calls of the named callback among a handler's calls
Delivered(calls, name) == {k \in 1..Len(calls) : calls[k][1] = name}

\* The calls of the named callback made in this step; a step of a handler
\* that is not the pointer's leaves ptr as it is
DeliveredNow(name) == IF ptr' = ptr THEN {} ELSE Delivered(ptr'.calls, name)

\* The press at hand took _on_click's ordinary path: outside cut mode, not on
\* a hovered bracket edge, not on a box's name area, not on a section header
OrdinaryPress ==
    /\ ptr.kind = "plain"
    /\ ptr.hit # -1
    /\ ~cut_mode
    /\ ~(hover_index = ptr.hit /\ hover_side # "None")
    /\ ~InNameArea(Cur, ptr.hit, ptr.y + scroll_y)
    /\ ~(continuous_mode /\ ~box_mode /\ HeadersAt(Cur, ptr.x, ptr.y + scroll_y) # {})

\* C17, at press time: an ordinary press on a selected item leaves the
\* selection as it was and records the item as the pending click
PressKeepsSelection ==
    (ptr'.down /\ ev'.op = "plain" /\ OrdinaryPress' /\ ptr'.hit \in ptr'.before)
        => (selected_indices' = ptr'.before /\ pending_click_index' = ptr'.hit)

\* C17, at release time with the click still pending and no drag: the
\* selection becomes exactly the pressed item and on_click is delivered once,
\* for that item
ReleaseSelectsPending ==
    (Released /\ pending_click_index # Nil /\ ~drag_active)
        => /\ selected_indices' = {pending_click_index}
           /\ Cardinality(Delivered(ptr'.calls, "on_click")) = 1
           /\ <<"on_click", pending_click_index>>
                  \in {ptr'.calls[k] : k \in DOMAIN ptr'.calls}

\* C17, at release time after a drag: no click is delivered
NoClickAfterDrag ==
    (Released /\ drag_active) => Delivered(ptr'.calls, "on_click") = {}

\* C17: a press on an item that is already selected leaves the selection
\* unchanged and records a pending click; a release without a drag having
\* started makes the selection exactly {item} and delivers on_click once; a
\* release after a drag delivers no click.
C17_PendingClickResolvedAsSelect ==
    [][PressKeepsSelection /\ ReleaseSelectsPending /\ NoClickAfterDrag]_vars

\* C18, entering Dragging: only with the button held, after the pointer moved
\* more than 5 px away from where it went down, and over a selected item
DragEnteredAfterMove ==
    /\ drag_active' => (ptr'.down /\ ptr'.moved)
    /\ (~drag_active /\ drag_active') => drag_start_index' \in selected_indices'

\* C18: on_drag_start is delivered once when Dragging is entered and at no
\* other time
DragStartOncePerDrag ==
    Cardinality(DeliveredNow("on_drag_start"))
        = IF ~drag_active /\ drag_active' THEN 1 ELSE 0

\* C18: a release leaves the grid idle
ReleaseReturnsToIdle ==
    Released => /\ ~drag_active'
                /\ drop_indicator_index' = -1
                /\ ~fan_active'
                /\ pending_click_index' = Nil

\* C18: on_drag_end is delivered only by the release of a gesture that was
\* dragging
DragEndOnlyAfterDrag ==
    DeliveredNow("on_drag_end") # {} => (Released /\ drag_active)

\* C18: per pointer gesture, Dragging is entered only after a press followed
\* by a movement of more than 5 px from the press position while over a
\* selected item; on_drag_start fires once per drag; every release returns to
\* idle; on_drag_end fires only for gestures that were dragging; whatever the
\* kind of the press (plain, Control, Shift).
C18_DragOnlyAfterThreshold ==
    [][/\ DragEnteredAfterMove
       /\ DragStartOncePerDrag
       /\ ReleaseReturnsToIdle
       /\ DragEndOnlyAfterDrag]_vars

\* The selection S with the membership of item i toggled
Toggle(S, i) == IF i \in S THEN S \ {i} ELSE S \cup {i}

\* C19: a Control-click on an item toggles the membership of exactly that
\* item in the selection and leaves every other item's membership as it was
\* (so from {A}, Control-click B gives {A,B}, and Control-click A then gives
\* {B}).
C19_CtrlClickTogglesOneItem ==
    (ptr.down /\ ptr.kind = "ctrl" /\ ptr.hit # -1)
        => selected_indices = Toggle(ptr.before, ptr.hit)

\* Scenario C's second step: with A = 0 and B = 1 selected, a Control-click on
\* A has left exactly B selected
C19_Witness ==
    /\ ptr.down /\ ptr.kind = "ctrl" /\ ptr.hit = 0
    /\ ptr.before = {0, 1}
    /\ selected_indices = {1}

\* The press at hand is a plain click as the claim words it: no modifier, on
\* an item, outside cut mode, not on a hovered bracket edge
ClaimedPlainClick ==
    /\ ptr.down /\ ev.op = "plain"
    /\ ptr.hit # -1
    /\ ~cut_mode
    /\ ~(hover_index = ptr.hit /\ hover_side # "None")

\* What a plain select leaves behind: the item alone selected, no pending
\* bracket start, on_selection_change then on_click for the item
PlainSelected ==
    /\ selected_indices = {ptr.hit}
    /\ bracket_start = Nil
    /\ ptr.calls = << <<"on_selection_change", Nil>>, <<"on_click", ptr.hit>> >>

Between(a, j) == Min(a, j)..Max(a, j)

\* C21: a Shift-click on item j extends the selection from the anchor a, the
\* item most recently selected by a click: the selection afterwards is the
\* selection before together with every index between a and j, whatever else
\* is selected.
C21_ShiftClickExtendsFromAnchor ==
    (/\ ptr.down /\ ptr.kind = "shift" /\ ptr.hit # -1
     /\ ptr.anchor \in ptr.before)
        => selected_indices = ptr.before \cup Between(ptr.anchor, ptr.hit)

\* The press of this step is a plain press on the bracket edge of the hovered
\* item
BracketPress ==
    /\ Pressed /\ ptr'.kind = "plain" /\ ptr'.hit # -1
    /\ ~cut_mode /\ hover_index = ptr'.hit /\ hover_side # "None"

\* C22, the two bracket clicks: the first, on i, makes i the bracket start;
\* the second, on j, selects exactly the indices between the bracket start and
\* j and leaves no bracket start
BracketClicksSelectRange ==
    BracketPress =>
        IF bracket_start = Nil
        THEN bracket_start' = ptr'.hit
        ELSE /\ selected_indices' = Between(bracket_start, ptr'.hit)
             /\ bracket_start' = Nil

\* C22, between the two: a plain click on an unselected item cancels the
\* pending bracket start, and nothing but a plain press changes it
BracketStartCancelled ==
    /\ (/\ Pressed /\ ptr'.kind = "plain" /\ ptr'.hit # -1 /\ ~BracketPress
        /\ ptr'.hit \notin selected_indices)
           => bracket_start' = Nil
    /\ bracket_start' # bracket_start => (Pressed /\ ptr'.kind = "plain")

\* C22: a first bracket click on item i followed by a second bracket click on
\* item j sets the selection to exactly min(i,j)..max(i,j) and leaves bracket
\* mode; a plain click on an unselected item between the two cancels the
\* pending bracket start.
C22_BracketClicksSelectRange ==
    [][BracketClicksSelectRange /\ BracketStartCancelled]_vars

\* A second bracket click on page 2, after a first on page 0, has selected
\* the three pages and left bracket mode
C22_Witness ==
    /\ ptr.down /\ ptr.kind = "plain" /\ ptr.hit = 2
    /\ hover_index = 2 /\ hover_side # "None"
    /\ ptr.before = {0}
    /\ selected_indices = 0..2
    /\ bracket_start = Nil

\* The pointer dragged to e is over no item, on the row of the last page of
\* section k and right of that page
PastSectionEnd(e, k) ==
    /\ get_item_at(positions, e.x, e.y + scroll_y) = -1
    /\ k \in EndedLeftOf(Cur, e.x, e.y + scroll_y)

\* The step is _on_drag with the pointer at e, and the grid is dragging
\* after it
DraggedTo(e) == drag_active' /\ \E fan_ok \in BOOLEAN : Drag(e, fan_ok)

\* The drag step resolved its target to the end of section k, and recorded
\* the section
ResolvedToSection(k) ==
    /\ drop_target_section' = k
    /\ \A c \in Delivered(ptr'.calls, "on_drag_motion") :
           ptr'.calls[c][2] = sections[k + 1].start_page + sections[k + 1].page_count
    /\ Delivered(ptr'.calls, "on_drag_motion") # {}

\* C23: during a drag, a pointer on the row of the last item of any section
\* and right of it, the last section included, resolves to that section's
\* end with the section recorded as the drop target, before end-of-list is
\* considered.
C23_SectionEndBeforeListEnd ==
    [][\A e \in DropOver : \A k \in 0..(Len(sections) - 1) :
           DraggedTo(e) /\ PastSectionEnd(e, k) => ResolvedToSection(k)]_vars

----------------------------------------------------------------------------
(* Claims about keyboard navigation over the layout *)

\* The items (0-based) lying entirely above / below item i of the layout
ItemsAbove(i) ==
    {j \in 0..(Len(layout.positions) - 1) :
        layout.positions[j + 1][2] + layout.positions[j + 1][4] <= layout.positions[i + 1][2]}
ItemsBelow(i) ==
    {j \in 0..(Len(layout.positions) - 1) :
        layout.positions[j + 1][2] >= layout.positions[i + 1][2] + layout.positions[i + 1][4]}

\* Twice the horizontal distance between the centres of items i and j
CentreDistance2(i, j) ==
    Abs((2 * layout.positions[j + 1][1] + layout.positions[j + 1][3])
        - (2 * layout.positions[i + 1][1] + layout.positions[i + 1][3]))

\* Twice the claimed measure, 1000 x vertical gap + horizontal distance
\* between centres, of item j above / below item i
MeasureAbove(i, j) ==
    2000 * (layout.positions[i + 1][2]
            - (layout.positions[j + 1][2] + layout.positions[j + 1][4]))
    + CentreDistance2(i, j)
MeasureBelow(i, j) ==
    2000 * (layout.positions[j + 1][2]
            - (layout.positions[i + 1][2] + layout.positions[i + 1][4]))
    + CentreDistance2(i, j)

\* Every row of the layout holds items of one height
RowsOfEqualHeight ==
    \A i, j \in 1..Len(layout.positions) :
        layout.positions[i][2] = layout.positions[j][2]
            => layout.positions[i][4] = layout.positions[j][4]

\* r is on the row nearest to item i among the candidates, and no item of
\* that row has its centre nearer to the centre of i
NearestOfNearestRow(i, r, candidates, above) ==
    /\ \A j \in candidates :
           IF above THEN layout.positions[j + 1][2] <= layout.positions[r + 1][2]
                    ELSE layout.positions[j + 1][2] >= layout.positions[r + 1][2]
    /\ \A j \in candidates :
           layout.positions[j + 1][2] = layout.positions[r + 1][2]
               => CentreDistance2(i, r) <= CentreDistance2(i, j)

\* C24: find_item_above(i) / find_item_below(i) return, among the items lying
\* entirely above / below item i, one minimising 1000 x vertical gap +
\* horizontal distance between centres, and None when there is no such item or
\* i is out of range; when every row holds items of one height the result is
\* in the row immediately above / below and is an item of that row whose
\* centre is horizontally nearest.
C24_NearestItemAboveBelow ==
    \A i \in -1..Len(layout.positions) :
        LET up == find_item_above(layout.positions, i)
            down == find_item_below(layout.positions, i)
        IN IF i < 0 \/ i >= Len(layout.positions)
           THEN up = Nil /\ down = Nil
           ELSE /\ IF ItemsAbove(i) = {} THEN up = Nil
                   ELSE /\ up \in ItemsAbove(i)
                        /\ \A j \in ItemsAbove(i) : MeasureAbove(i, up) <= MeasureAbove(i, j)
                        /\ RowsOfEqualHeight => NearestOfNearestRow(i, up, ItemsAbove(i), TRUE)
                /\ IF ItemsBelow(i) = {} THEN down = Nil
                   ELSE /\ down \in ItemsBelow(i)
                        /\ \A j \in ItemsBelow(i) : MeasureBelow(i, down) <= MeasureBelow(i, j)
                        /\ RowsOfEqualHeight => NearestOfNearestRow(i, down, ItemsBelow(i), FALSE)

\* Three rows of one height, the middle one shorter than its neighbours: from
\* the second item of the last row the search upwards passes over the item
\* straight above it, two rows up, and from the second item of the first row
\* the search downwards finds the only item of the middle row
C24_Witness ==
    /\ RowsOfEqualHeight
    /\ Cardinality(RowYs) >= 3
    /\ \E i \in 0..(Len(layout.positions) - 1) :
           /\ find_item_above(layout.positions, i) # Nil
           /\ CentreDistance2(i, find_item_above(layout.positions, i)) > 0
           /\ \E j \in ItemsAbove(i) : CentreDistance2(i, j) = 0
    /\ \E i \in 0..(Len(layout.positions) - 1) :
           /\ find_item_below(layout.positions, i) # Nil
           /\ CentreDistance2(i, find_item_below(layout.positions, i)) > 0

----------------------------------------------------------------------------
(* Claims about the threads *)

\* The grid state the UI thread works on: the raster cache, the pending set,
\* the item sizes, the layout and the selection
SharedGridState ==
    <<images_cache, pending_renders, item_sizes, aspect_ratios, positions, total_height,
      selected_indices>>

\* C25: worker threads never read or write grid state shared with the UI
\* thread (the raster cache, the pending set, item sizes, layout, selection):
\* a step of a worker leaves that state as it is, and every mutation of it is
\* made by a step of the UI thread.
C25_WorkersLeaveGridStateAlone ==
    [][Workers => UNCHANGED SharedGridState]_vars

\* A structural change or a zoom change has happened since the ZoomPreload
\* thread was started
ChangedSinceWarmup == warm.gen # doc_gen \/ warm.size # thumbnail_size

\* The step is a render call of the ZoomPreload thread / an insertion into
\* the raster cache by one of its callbacks
WarmupRenders == ev'.op = "preload_render" /\ \E ok \in BOOLEAN : PreloadWorker(ok)
WarmupInserts == SaveToCache /\ images_cache' # images_cache

\* C26: a warmup scan started before a structural change or a further zoom
\* change stops once that change has happened: after the change it issues no
\* further render calls and inserts no further rasters into the cache.
C26_WarmupStopsAfterChange ==
    [][ChangedSinceWarmup => ~WarmupRenders /\ ~WarmupInserts]_vars

----------------------------------------------------------------------------
(* Claims about the resolution classes of the raster cache *)

\* C27: the number of resolution classes held together in the grid's raster
\* cache never exceeds max_zoom_levels_cached, after any sequence of zoom
\* changes, render completions and cache accesses.
C27_ClassesBounded == Len(images_cache) <= max_zoom_levels_cached

\* The classes the raster cache holds
ClassesOf(c) == {c[k].size : k \in 1..Len(c)}

\* The classes a render completion dropped from the raster cache
Evicted ==
    IF ev'.op = "complete" /\ ApplyCompletion
    THEN ClassesOf(images_cache) \ ClassesOf(images_cache')
    ELSE {}

\* Class e was current until the last zoom change, so that every other class
\* held, the current one apart, was used longer ago than e
UsedLast(e) ==
    /\ sw.phase = 1
    /\ sw.c = e
    /\ ClassesOf(images_cache) \ {e, thumbnail_size} # {}

\* C28: when an insertion makes the grid cache exceed its bound on resolution
\* classes, the class evicted is the least recently used class other than the
\* current one, and the current class is never evicted: the step evicts
\* neither the current class nor, while classes used longer ago are held, the
\* class that was current just before it.
C28_EvictsLeastRecentlyUsed ==
    [][\A e \in Evicted : e # thumbnail_size /\ ~UsedLast(e)]_vars

\* The keys of the document's pages at resolution d
KeysAt(d) == {MakeKey(<<"a">>, n, d) : n \in Pages}

\* The step is a put for resolution d
PutAt(d) == clock' = clock + 1 /\ pc_ev'.op = "put" /\ pc_ev'.key \in KeysAt(d)

\* C29: capacity eviction is independent across resolution classes: a put for
\* resolution r evicts only the least recently used entry of resolution r and
\* never an entry cached for a different resolution.
C29_EvictionPerResolution ==
    [][\A d \in TwoDpis :
           PutAt(d) =>
               \A k \in pc_ev'.out :
                   /\ k \in KeysAt(d)
                   /\ \A j \in DOMAIN cache \cap KeysAt(d) : last_use[k] <= last_use[j]]_vars

----------------------------------------------------------------------------
(* Claims about the drawn records *)

\* C30: in every reachable state the indices that have a DrawnItemRecord lie
\* in the visible index range computed by the last redraw, for any sequence
\* of redraw, scroll, update_box_state and render completions.
C30_DrawnWithinLastVisibleRange ==
    \A i \in DOMAIN drawn_items :
        last_visible_range[1] <= i /\ i < last_visible_range[2]

\* The indices the last redraw found visible
LastVisible == last_visible_range[1]..(last_visible_range[2] - 1)

\* Item i has a base object of the kind on the canvas
HasBase(i, kind) ==
    i \in DOMAIN drawn_items /\ drawn_items[i].base # NoId /\ drawn_items[i].kind = kind

\* A render of item i at the current size is requested: the index is in the
\* pending set and a task for it is with the executor
RenderRequested(i) ==
    /\ i \in pending_renders
    /\ \E k \in 1..Len(tasks) : tasks[k].index = i /\ tasks[k].size = thumbnail_size

\* The handler that ran last ended with a redraw of pages
PagesRedrawn == ev.redraw /\ ~box_mode /\ item_count > 0

\* What a redraw leaves on the canvas for the visible pages
MissIsPlaceholder ==
    PagesRedrawn =>
        \A i \in LastVisible :
            IF i \in CachedAt(images_cache, thumbnail_size)
            THEN HasBase(i, "image")
            ELSE HasBase(i, "rectangle") /\ RenderRequested(i)

\* The rasters held in the raster cache, whatever their class and index
RastersOf(c) == UNION {{c[k].imgs[i] : i \in DOMAIN c[k].imgs} : k \in 1..Len(c)}

\* A handler that only redraws produces no raster: none is new in the raster
\* cache and no result is queued for the UI thread
RedrawRendersNothing ==
    ev'.op = "redraw" /\ ev' # ev =>
        /\ RastersOf(images_cache') \subseteq RastersOf(images_cache)
        /\ ui_queue' = ui_queue

\* C31: after a redraw in page mode, every visible index with no raster
\* cached at the current resolution class has a placeholder base object and a
\* render request pending, and every visible index with a cached raster has an
\* image base object; the redraw itself never calls the renderer.
C31_MissDegradesToPlaceholder ==
    [][MissIsPlaceholder' /\ RedrawRendersNothing]_vars

\* A redraw has left an image for one visible page and a placeholder with a
\* pending render for another
C31_Witness ==
    /\ PagesRedrawn
    /\ \E i, j \in LastVisible :
           /\ HasBase(i, "image") /\ i \in CachedAt(images_cache, thumbnail_size)
           /\ HasBase(j, "rectangle") /\ RenderRequested(j)

----------------------------------------------------------------------------
(* Claims about the indicators *)

\* C32: the indicators are made anew in each redraw and those of the cycle
\* before are removed, so that they do not pile up: after any redraw the
\* canvas holds at most one drop-target marker.
C32_OneDropMarker == ev.redraw => drop_line_items <= 1

----------------------------------------------------------------------------
(* Claims about the section bounds and the section headers *)

\* The section of index k (0-based) of the last update holds none of the items
NoItemsIn(k) ==
    LET s == layout_args.sections[k + 1]
    IN s.page_count = 0 \/ s.start_page >= Len(layout_args.item_sizes)

\* C33: after an update with a non-empty section list, section_bounds has an
\* entry (y_start, y_end) with y_start <= y_end for every section index, and
\* a section that holds no items (the item list may be empty) has a range of
\* height zero
C33_BoundsForEverySection ==
    layout_args.sections # <<>> =>
        \A k \in 0..(Len(layout_args.sections) - 1) :
            /\ k \in DOMAIN layout.section_bounds
            /\ layout.section_bounds[k][1] <= layout.section_bounds[k][2]
            /\ NoItemsIn(k) => layout.section_bounds[k][1] = layout.section_bounds[k][2]

\* The sections of the last update are the section manager's: contiguous from
\* page 0 and holding all the items
SectionsCoverItems ==
    LET secs == layout_args.sections
    IN /\ secs # <<>>
       /\ secs[Len(secs)].start_page + secs[Len(secs)].page_count
              = Len(layout_args.item_sizes)

\* Sections with a header anchor after the last update
Anchored == DOMAIN layout.section_header_coords

\* Right edges of the items of section k that lie on the row of its anchor
OwnEdgesOnRow(k) ==
    LET s == layout_args.sections[k + 1]
    IN {layout.positions[i + 1][1] + layout.positions[i + 1][3] :
            i \in {j \in s.start_page..(s.start_page + s.page_count - 1) :
                       /\ j < Len(layout.positions)
                       /\ layout.positions[j + 1][2] = layout.section_header_coords[k][2]}}

\* Space that the items of section k take on the row of its anchor, from the
\* anchor to the right edge of the last of them
OwnSpace(k) ==
    IF OwnEdgesOnRow(k) = {} THEN 0
    ELSE GreatestOf(OwnEdgesOnRow(k)) - layout.section_header_coords[k][1]

\* Width at which the header of section k is drawn for a title of n characters
EffectiveWidth(k, n) == FinalWidth(n, layout.section_header_coords[k][3])

\* C34: in continuous mode, of two sections anchored on the same row the
\* header of the earlier one, at its effective width, ends at or before the x
\* where the header of the later one begins, and the effective width is never
\* more than the space the section's own items take on that row
C34_HeadersDoNotOverlap ==
    (layout.continuous_mode /\ SectionsCoverItems) =>
        \A n \in 1..MaxTitleLen :
            /\ \A a, b \in Anchored :
                   (/\ layout.section_header_coords[a][2] = layout.section_header_coords[b][2]
                    /\ layout.section_header_coords[a][1] < layout.section_header_coords[b][1])
                   => layout.section_header_coords[a][1] + EffectiveWidth(a, n)
                          <= layout.section_header_coords[b][1]
            /\ \A a \in Anchored : EffectiveWidth(a, n) <= OwnSpace(a)

----------------------------------------------------------------------------
(* Claims about the section manager *)

\* initialize_default has run
Initialised == manager_call.total_pages # Nil

RECURSIVE PagesIn(_)
PagesIn(secs) ==
    IF secs = <<>> THEN 0 ELSE secs[1].page_count + PagesIn(Tail(secs))

\* The first section starts at 0 and each section starts where the one
\* before it ends
Contiguous(secs) ==
    /\ secs # <<>> => secs[1].start_page = 0
    /\ \A k \in 1..(Len(secs) - 1) :
           secs[k + 1].start_page = secs[k].start_page + secs[k].page_count

\* page_index is the first page of a section of secs, or lies in none
SplitsNothing(secs, page_index) ==
    \/ \A k \in 1..Len(secs) :
           ~(secs[k].start_page <= page_index
             /\ page_index < secs[k].start_page + secs[k].page_count)
    \/ \E k \in 1..Len(secs) :
           secs[k].page_count > 0 /\ secs[k].start_page = page_index

\* C35: from initialize_default(N) on, after any sequence of split_section
\* and merge_section_up the first section starts at 0, each section starts
\* where the one before ends and the page counts sum to N; a split at the
\* first page of a section or at an index in no section changes nothing
C35_SectionsStayContiguous ==
    Initialised =>
        /\ manager_sections # <<>>
        /\ Contiguous(manager_sections)
        /\ PagesIn(manager_sections) = manager_call.total_pages
        /\ (manager_call.op = "split_section"
            /\ SplitsNothing(manager_call.before, manager_call.arg))
           => manager_sections = manager_call.before

\* C35 witness: a merge that joined two sections and left more than one
C35_Witness ==
    /\ Initialised
    /\ manager_call.op = "merge_section_up"
    /\ Len(manager_call.before) = Len(manager_sections) + 1
    /\ Len(manager_sections) > 1

----------------------------------------------------------------------------
(* Claims about the viewer's fast lookup *)

\* The known resolutions the page of the last lookup was cached at before it
KnownCached ==
    {common_dpis[i] : i \in {j \in 1..Len(common_dpis) :
        MakeKey(ViewerPath, viewer_call.page_idx, common_dpis[j])
            \in DOMAIN viewer_call.before}}

\* Those of them that are nearest to the target
NearestKnown ==
    {b \in KnownCached :
        \A d \in KnownCached :
            Distance(b, viewer_call.dpi) <= Distance(d, viewer_call.dpi)}

\* The last call was a fast lookup of a page at a resolution it was not
\* cached at
FastLookupMissedExact ==
    /\ viewer_call.op = "get_page_thumbnail_fast"
    /\ viewer_call.kind # "IndexError"
    /\ MakeKey(ViewerPath, viewer_call.page_idx, viewer_call.dpi)
           \notin DOMAIN viewer_call.before

\* The lookup rendered the page at the target resolution, returned that
\* image and left it in the cache under the target resolution
FreshRender ==
    LET key == MakeKey(ViewerPath, viewer_call.page_idx, viewer_call.dpi)
        image == Rendered(viewer_call.page_idx, viewer_call.dpi)
    IN /\ viewer_call.renders = 1
       /\ viewer_call.image = [src |-> image, to |-> Nil]
       /\ key \in DOMAIN cache /\ cache[key] = image

\* The lookup rendered nothing and returned the image cached at b, resized
\* to the target resolution; the cache holds what it held
RescaledFrom(b) ==
    /\ viewer_call.renders = 0
    /\ viewer_call.image =
           [src |-> viewer_call.before[MakeKey(ViewerPath, viewer_call.page_idx, b)],
            to |-> viewer_call.dpi]
    /\ cache = viewer_call.before

----------------------------------------------------------------------------
(* Claims about the selection and the reordering of boxes *)

BoxesAt(boxes, S) == [k \in 1..Cardinality(S) |-> boxes[Sorted(S)[k] + 1]]

\* The last step was a call of reorder_selected_boxes
Reordered == ev.op = "reorder_selected_boxes"

\* The call was made in box mode with a selection that is not empty and
\* lies within the boxes
ReorderApplies ==
    /\ reorder_call.box_mode
    /\ reorder_call.selected # {}
    /\ reorder_call.selected \subseteq 0..(Len(reorder_call.boxes) - 1)

\* The list after is a permutation of the list before: some one-to-one
\* renumbering of the indices carries each box to its place
IsPermutation(before, after) ==
    /\ Len(after) = Len(before)
    /\ \E f \in [1..Len(before) -> 1..Len(before)] :
           /\ \A i, j \in 1..Len(before) : i # j => f[i] # f[j]
           /\ \A i \in 1..Len(before) : after[f[i]] = before[i]

\* C38: in box mode with a non-empty selection within the boxes,
\* reorder_selected_boxes yields a permutation of the box list in which the
\* selected boxes are contiguous in their original order, the unselected keep
\* their order, and selected_indices is exactly the new indices of the moved
\* boxes; outside box mode or with an empty selection it changes nothing and
\* returns False
C38_ReorderKeepsRelativeOrder ==
    Reordered =>
        IF ReorderApplies
        THEN LET n == Len(reorder_call.boxes)
                 all == 0..(n - 1)
             IN /\ reorder_call.ret
                /\ IsPermutation(reorder_call.boxes, document_boxes)
                /\ \E lo \in all :
                       selected_indices = lo..(lo + Cardinality(reorder_call.selected) - 1)
                /\ selected_indices \subseteq all
                /\ BoxesAt(document_boxes, selected_indices)
                       = BoxesAt(reorder_call.boxes, reorder_call.selected)
                /\ BoxesAt(document_boxes, all \ selected_indices)
                       = BoxesAt(reorder_call.boxes, all \ reorder_call.selected)
        ELSE /\ ~reorder_call.ret
             /\ document_boxes = reorder_call.boxes
             /\ selected_indices = reorder_call.selected
             /\ box_mode = reorder_call.box_mode
             /\ ~ev.redraw

\* C38 witness: the first and the last of three boxes are selected and moved
\* to the end; the middle box is now the first
C38_Witness ==
    /\ Reordered /\ ReorderApplies
    /\ reorder_call.selected = {0, 2}
    /\ reorder_call.target_index = 3
    /\ document_boxes = <<ThreeBoxes[2], ThreeBoxes[1], ThreeBoxes[3]>>
    /\ selected_indices = {1, 2}

----------------------------------------------------------------------------
(* Claims about the keys of the PageCache *)

\* k is the key of a page of the document at pdf_path
KeyOfPath(k, pdf_path) ==
    \E n \in Pages, d \in Dpis : k = MakeKey(pdf_path, n, d)

\* The access-order list holds exactly the cached keys, each once
OrderIsCachedKeys ==
    /\ {access_order[i] : i \in 1..Len(access_order)} = DOMAIN cache
    /\ Len(access_order) = Cardinality(DOMAIN cache)

\* C39: after any sequence of get, put, clear and clear_pdf the cache holds
\* at most max_size entries and the access-order list holds exactly the
\* cached keys, each once; clear_pdf(p) removes every entry of path p and no
\* entry of another path
C39_CacheKeysAndPaths ==
    /\ Cardinality(DOMAIN cache) <= max_size
    /\ OrderIsCachedKeys
    /\ pc_ev.op = "clear_pdf" =>
           /\ \A k \in DOMAIN cache : ~KeyOfPath(k, pc_ev.key)
           /\ \A k \in pc_ev.out : KeyOfPath(k, pc_ev.key)

----------------------------------------------------------------------------
(* Claims about the debounced redraw of a scroll *)

\* C40: every wheel scroll of the grid is followed by a redraw that runs
\* after that scroll, and at most one debounced scroll redraw is scheduled at
\* any time: scrolls that arrive while one is scheduled schedule no other
\* and are covered by the scheduled one
C40_ScrollIsRedrawnOnce ==
    /\ [](scroll_redraw_timers <= 1)
    /\ (wheels_pending > 0) ~> (wheels_pending = 0)

\* C40 witness: two wheel scrolls have arrived since the last redraw, the
\* second while the redraw of the first was scheduled, and one redraw is due
C40_Witness ==
    /\ ev.op = "wheel"
    /\ wheels_pending = 2
    /\ scroll_redraw_pending
    /\ scroll_redraw_timers = 1

============================================================================
